---- MODULE Spec2Model ----
(***************************************************************************)
(* A model of doubri (swallow-llm/doubri): the MinHash file codec          *)
(* (minhash.hpp), the group deduper (dedup.cc), the index merger           *)
(* (merge.cc) and the flag applicator (apply.cc).                          *)
(*                                                                         *)
(* Each program is a specification of its own over the variables of its    *)
(* part; the variables of the other parts stay at their initial values.    *)
(*   SpecMinHash    : MinHashWriter open/put/flush/close, MinHashReader    *)
(*   SpecDedup      : doubri-dedup over well-formed shards                 *)
(*   SpecDedupMain  : doubri-dedup over any files and group numbers        *)
(*   SpecDedupFaults: doubri-dedup over shards that come short and files   *)
(*                    that do not open                                     *)
(*   SpecDedupSelf  : doubri-self (dedup_self.cc)                          *)
(*   SpecMerge      : merge_index                                          *)
(*   SpecMergeLive  : merge_index with weak fairness of its steps          *)
(*   SpecMergeMain  : doubri-merge over several bands                      *)
(*   SpecApply      : doubri-apply main                                    *)
(*   SpecApplyWhole : doubri-apply-whole main                              *)
(*   SpecSketch     : doubri-minhash main                                  *)
(*   SpecRange      : the range checks at their boundaries                 *)
(*                                                                         *)
(* A byte is a number in 0..255 and memory is a sequence of bytes.  A      *)
(* 64-bit word is kept as its 8-byte image in the memory of the            *)
(* little-endian host, so that bswap_64 and the raw writes of the code     *)
(* are modelled by what they do to the bytes.                              *)
(***************************************************************************)
EXTENDS Integers, Sequences, FiniteSets, TLC

VARIABLES
    \* ---- MinHashWriter (minhash.hpp:81-237) ----
    mw_pc,              \* "open" | "closed" | "failed"
    mw_stream,          \* the input stream the writer is fed (see Streams)
    m_num_items,        \* MinHashWriter::m_num_items
    m_num_hash_values,  \* MinHashWriter::m_num_hash_values
    m_begin,            \* MinHashWriter::m_begin
    m_end,              \* MinHashWriter::m_end
    m_i,                \* MinHashWriter::m_i
    m_bas,              \* MinHashWriter::m_bas, one buffer of words per band
    m_ofs,              \* the bytes of the file behind MinHashWriter::m_ofs
    put_rows,           \* history: the rows put() received, in order
    \* ---- MinHashReader (minhash.hpp:239-365) ----
    mr_pc,              \* "new" | "open" | "failed"
    mr_hdr,             \* the header fields MinHashReader::open parsed
    mr_band,            \* the bucket_number of the last read_bucket_array
    mr_buffer,          \* what the last read_bucket_array left in buffer
    \* ---- doubri-dedup: MinHashLSH (dedup.cc:162-499) ----
    dd_pc,              \* position in initialize()/run()/deduplicate_bucket()
    dd_files,           \* the MinHash files of the shards, in stdin order (bytes)
    dd_group,           \* group, the argument of run()
    dd_save_index,      \* save_index, the argument of run()
    lsh_hfs,            \* MinHashLSH::m_hfs: num_items and start_index per shard
    lsh_num_items,      \* MinHashLSH::m_num_items
    lsh_bytes_per_hash, \* MinHashLSH::m_bytes_per_hash
    lsh_num_hash_values,\* MinHashLSH::m_num_hash_values
    lsh_begin,          \* MinHashLSH::m_begin
    lsh_end,            \* MinHashLSH::m_end
    lsh_buffer,         \* MinHashLSH::m_buffer, one bucket per item slot
    lsh_items,          \* MinHashLSH::m_items: Item::i of each element
    lsh_flags,          \* MinHashLSH::m_flags
    dd_bn,              \* bn of run(), bucket_number of deduplicate_bucket()
    dd_task,            \* per shard: j of the load task, or -1 when it has ended
    dd_idx,             \* the index files written, by bucket number
    dd_cols,            \* history: the buffer as loaded, by bucket number
    dd_flags0,          \* history: m_flags when the current band started
    dd_everD,           \* history: items seen with flag 'D' at the end of a band
    dd_src,             \* the source-list file <basename>.src
    dd_dup,             \* the flag file <basename>.dup
    dd_ret,             \* the exit status of doubri-dedup, -1 while running
    dd_ifs,             \* per shard: eofbit and failbit of the load task's ifs
    dd_fault,           \* the file the system refuses to open, if any
    dd_wrote,           \* history: per item slot, the load tasks that wrote it
    \* ---- doubri-merge: merge_index (merge.cc:199-277) ----
    mg_pc,              \* "open" | "prime" | "top" | "dups" | "returned"
    mg_sources,         \* the index files of the sources for the band
    mg_readers,         \* readers[k]: header fields, read position, eof
    mg_writer,          \* the output index file behind writer
    mg_pq,              \* pq: the items it holds
    mg_top,             \* top of the current turn of the outer loop
    mg_out,             \* std::cout: the "+" and "-" lines printed
    mg_ret,             \* the value merge_index returned, -1 before it returns
    mg_later,           \* the sources of the bands merge() has still to do
    mg_rets,            \* history: what the calls of merge_index returned
    mg_exit,            \* the exit status of doubri-merge, -1 while running
    \* ---- doubri-apply: main (apply.cc:33-218) ----
    ap_pc,              \* "scan" | "flags" | "lines" | "finish" | "exit"
    ap_manifest,        \* the source file: its lines, and whether a tail follows
    ap_flagfile,        \* the bytes of the flag file
    ap_strip,           \* --strip
    ap_stdin,           \* STDIN: its lines, and whether a tail follows
    ap_mpos,            \* lines of the source file consumed
    ap_n,               \* n
    ap_found,           \* found
    ap_begin,           \* begin
    ap_size,            \* size
    ap_flags,           \* flags
    ap_i,               \* i of the line loop
    ap_spos,            \* lines of STDIN consumed
    ap_stdout,          \* STDOUT: the lines written
    ap_ret,             \* the exit status, -1 while running
    \* ---- doubri-apply-whole: main (apply-whole.cc:32-121) ----
    aw_pc,              \* "flags" | "lines" | "exit"
    aw_flagfile,        \* the bytes of the flag file
    aw_stdin,           \* STDIN: its lines, and whether a tail follows
    aw_flags,           \* flags
    aw_i,               \* i of the line loop
    aw_spos,            \* lines of STDIN consumed
    aw_stdout,          \* STDOUT: the lines written
    aw_ret,             \* the exit status, -1 while running
    \* ---- doubri-minhash: main (minhash.cc:105-222) ----
    sk_pc,              \* "lines" | "closed"
    sk_n,               \* n, the --ngram argument
    sk_prm,             \* num_hash_values, begin and end
    sk_hash,            \* MurmurHash3_x86_32 as a table: <<n-gram, seed>> -> value
    sk_stdin,           \* STDIN: its lines, each a JSON object
    sk_pos,             \* lines of STDIN consumed (num_items)
    sk_rows,            \* the rows handed to mw.put(), in order
    \* ---- doubri-self: main and MinHashLSH (dedup_self.cc) ----
    ds_pc,              \* position in main, run() and deduplicate_bucket()
    ds_files,           \* the MinHash files of the shards, in stdin order (bytes)
    ds_ignore_flag,     \* --ignore-flag
    ds_save_index,      \* !no_index
    ds_flagfile,        \* the flag file <basename>.dup
    ds_lsh,             \* the members initialize() sets: parameters and m_hfs
    ds_buffer,          \* MinHashLSH::m_buffer, one bucket per item slot
    ds_items,           \* MinHashLSH::m_items: Item::i of each element
    ds_flags,           \* MinHashLSH::m_flags
    ds_bn,              \* bn of run()
    ds_idx,             \* the index files written, by bucket number
    ds_ret,             \* the exit status, -1 while running
    \* ---- the range checks on 64-bit values ----
    rg_group,           \* int group of main (dedup.cc:541)
    rg_g,               \* size_t g of write_item, as a word
    rg_i,               \* size_t i of write_item, as a word
    rg_n,               \* size_t m_num_items of MinHashWriter, as a word
    rg_refused,         \* whether main refused the group: "?" before the test
    rg_item,            \* what write_item did
    rg_close            \* what close() did

mhVars == <<mw_pc, mw_stream, m_num_items, m_num_hash_values, m_begin, m_end, m_i,
            m_bas, m_ofs, put_rows, mr_pc, mr_hdr, mr_band, mr_buffer>>

ddVars == <<dd_pc, dd_files, dd_group, dd_save_index, lsh_hfs, lsh_num_items,
            lsh_bytes_per_hash, lsh_num_hash_values, lsh_begin, lsh_end,
            lsh_buffer, lsh_items, lsh_flags, dd_bn, dd_task, dd_idx, dd_cols,
            dd_flags0, dd_everD, dd_src, dd_dup, dd_ret, dd_ifs, dd_fault, dd_wrote>>

\* The files main writes and its exit status.
ddMain == <<dd_src, dd_dup, dd_ret>>

\* The streams of the load tasks, the refused file and the record of writes.
ddIo == <<dd_ifs, dd_fault, dd_wrote>>

mgVars == <<mg_pc, mg_sources, mg_readers, mg_writer, mg_pq, mg_top, mg_out, mg_ret,
            mg_later, mg_rets, mg_exit>>

\* The loop of merge() and the exit status of main.
mgMain == <<mg_later, mg_rets, mg_exit>>

apVars == <<ap_pc, ap_manifest, ap_flagfile, ap_strip, ap_stdin, ap_mpos, ap_n,
            ap_found, ap_begin, ap_size, ap_flags, ap_i, ap_spos, ap_stdout, ap_ret>>

awVars == <<aw_pc, aw_flagfile, aw_stdin, aw_flags, aw_i, aw_spos, aw_stdout, aw_ret>>

skVars == <<sk_pc, sk_n, sk_prm, sk_hash, sk_stdin, sk_pos, sk_rows>>

dsVars == <<ds_pc, ds_files, ds_ignore_flag, ds_save_index, ds_flagfile, ds_lsh,
            ds_buffer, ds_items, ds_flags, ds_bn, ds_idx, ds_ret>>

rgVars == <<rg_group, rg_g, rg_i, rg_n, rg_refused, rg_item, rg_close>>

vars == <<mhVars, ddVars, mgVars, apVars, awVars, skVars, dsVars, rgVars>>

\* The variables of the other programs, which a program leaves alone.
notMh == <<ddVars, mgVars, apVars, awVars, skVars, dsVars, rgVars>>
notDd == <<mhVars, mgVars, apVars, awVars, skVars, dsVars, rgVars>>
notMg == <<mhVars, ddVars, apVars, awVars, skVars, dsVars, rgVars>>
notAp == <<mhVars, ddVars, mgVars, awVars, skVars, dsVars, rgVars>>
notAw == <<mhVars, ddVars, mgVars, apVars, skVars, dsVars, rgVars>>
notSk == <<mhVars, ddVars, mgVars, apVars, awVars, dsVars, rgVars>>
notDs == <<mhVars, ddVars, mgVars, apVars, awVars, skVars, rgVars>>
notRg == <<mhVars, ddVars, mgVars, apVars, awVars, skVars, dsVars>>

-----------------------------------------------------------------------------
(* Bytes and words *)

\* minhash.hpp:79
minhash_sector_size == 512

\* sizeof(uint64_t), minhash.hpp:121 and 146
bytes_per_uint64 == 8

\* Offset of the body of a MinHash file: 8 bytes of magic and six uint32_t.
mh_header_size == 32

Pow256(k) == IF k = 0 THEN 1 ELSE IF k = 1 THEN 256 ELSE IF k = 2 THEN 65536 ELSE 16777216

\* Byte k (0 = least significant) of a value below 2^31.
ByteOf(v, k) == IF k >= 4 THEN 0 ELSE (v \div Pow256(k)) % 256

\* The memory image of a uint64_t on the little-endian host.
Mem64(v) == [k \in 1..8 |-> ByteOf(v, k - 1)]

\* The memory image of a uint32_t on the little-endian host (writeval<uint32_t>).
Mem32(v) == [k \in 1..4 |-> ByteOf(v, k - 1)]

\* readval<uint32_t, size_t>: the value of four bytes of little-endian memory.
\* The model keeps header values below 2^24 so the sum stays in range.
Val32(bs) == bs[1] + 256 * bs[2] + 65536 * bs[3] + 16777216 * bs[4]

\* bswap_64 on the memory image of a word.
bswap_64(w) == [k \in 1..8 |-> w[9 - k]]

\* The bytes of a sequence of words, in memory order.
WordsToBytes(ws) ==
    [p \in 1..(Len(ws) * 8) |-> ws[((p - 1) \div 8) + 1][((p - 1) % 8) + 1]]

\* "DoubriH4"
MagicH4 == <<68, 111, 117, 98, 114, 105, 72, 52>>

-----------------------------------------------------------------------------
(* Bounds of the MinHash model *)

\* The largest number of put() calls before close().
MaxPuts == 514

\* The (num_hash_values, begin, end) a writer is opened with.
WriterParams ==
    { [H |-> 1, begin |-> 0, end |-> 1],
      [H |-> 2, begin |-> 0, end |-> 2],
      [H |-> 1, begin |-> 1, end |-> 3] }

\* The rows put() is called with: item n of stream s is the flat array of
\* (end-begin)*H hash values below.
Streams == {0, 1}

RowOf(s, n, len) == [f \in 1..len |-> (n * 259 + f * 131 + s * 65537 + 1) % 16777216]

-----------------------------------------------------------------------------
(* MinHashWriter *)

\* open(): the header with the num_items slot reserved (0), then the buffers.
WriterHeader(H, begin, end) ==
    MagicH4 \o Mem32(0) \o Mem32(bytes_per_uint64) \o Mem32(H)
            \o Mem32(begin) \o Mem32(end) \o Mem32(minhash_sector_size)

\* flush(): the bytes written to the file, band by band, the first
\* m_i * num_hash_values words of each buffer.
flush_bytes(bas, i, begin, end, H) ==
    LET F[j \in 0..(end - begin)] ==
            IF j = 0 THEN << >>
            ELSE F[j - 1] \o WordsToBytes(SubSeq(bas[j], 1, i * H))
    IN  IF 0 < i THEN F[end - begin] ELSE << >>

\* put(): the buffers after storing the row at slot i (the flat row is read
\* band by band, ptr++), each value byte-swapped.
put_store(bas, i, row, begin, end, H) ==
    [j \in 1..(end - begin) |->
        [k \in 1..Len(bas[j]) |->
            IF k > i * H /\ k <= i * H + H
            THEN bswap_64(Mem64(row[(j - 1) * H + (k - i * H)]))
            ELSE bas[j][k]]]

MhInit ==
    \E p \in WriterParams :
        /\ mw_pc = "open"
        /\ mw_stream \in Streams
        /\ m_num_items = 0
        /\ m_num_hash_values = p.H
        /\ m_begin = p.begin
        /\ m_end = p.end
        /\ m_i = 0
        /\ m_bas = [j \in 1..(p.end - p.begin) |->
                        [k \in 1..(minhash_sector_size * p.H) |-> Mem64(0)]]
        /\ m_ofs = WriterHeader(p.H, p.begin, p.end)
        /\ put_rows = << >>
        /\ mr_pc = "new"
        /\ mr_hdr = [ok |-> FALSE, num_items |-> 0, bytes_per_hash |-> 0,
                     num_hash_values |-> 0, begin |-> 0, end |-> 0]
        /\ mr_band = -1
        /\ mr_buffer = << >>

MwPut ==
    /\ mw_pc = "open"
    /\ m_num_items < MaxPuts
    /\ LET row == RowOf(mw_stream, m_num_items, (m_end - m_begin) * m_num_hash_values)
            full == minhash_sector_size <= m_i
            i0 == IF full THEN 0 ELSE m_i
        IN  /\ put_rows' = Append(put_rows, row)
            /\ m_ofs' = IF full
                        THEN m_ofs \o flush_bytes(m_bas, m_i, m_begin, m_end, m_num_hash_values)
                        ELSE m_ofs
            /\ m_bas' = put_store(m_bas, i0, row, m_begin, m_end, m_num_hash_values)
            /\ m_i' = i0 + 1
            /\ m_num_items' = m_num_items + 1
    /\ UNCHANGED <<mw_pc, mw_stream, m_num_hash_values, m_begin, m_end,
                   mr_pc, mr_hdr, mr_band, mr_buffer>>
    /\ UNCHANGED notMh

\* close(): 0xFFFFFFFF <= m_num_items, for m_num_items given as a word: a
\* byte above the low four is set, or the low four are all 0xFF.
close_range_error_w(w) ==
    \/ \E k \in 5..8 : w[k] # 0
    \/ \A k \in 1..4 : w[k] = 255

close_range_error(n) == close_range_error_w(Mem64(n))

\* seekp(8); writeval<uint32_t>(m_num_items), for m_num_items given as a
\* word: the low four bytes.
patch_num_items_w(f, w) ==
    [p \in 1..Len(f) |-> IF p > 8 /\ p <= 12 THEN w[p - 8] ELSE f[p]]

patch_num_items(f, n) == patch_num_items_w(f, Mem64(n))

MwClose ==
    /\ mw_pc = "open"
    /\ LET flushed == m_ofs \o flush_bytes(m_bas, m_i, m_begin, m_end, m_num_hash_values)
       IN  IF close_range_error(m_num_items)
           THEN /\ mw_pc' = "failed"
                /\ m_ofs' = flushed
           ELSE /\ mw_pc' = "closed"
                /\ m_ofs' = patch_num_items(flushed, m_num_items)
    /\ m_i' = 0
    /\ UNCHANGED <<mw_stream, m_num_items, m_num_hash_values, m_begin, m_end, m_bas,
                   put_rows, mr_pc, mr_hdr, mr_band, mr_buffer>>
    /\ UNCHANGED notMh

-----------------------------------------------------------------------------
(* MinHashReader *)

\* The uint32_t header field number n (0 = num_items) of a file.
HdrField(f, n) == Val32(SubSeq(f, 9 + 4 * n, 12 + 4 * n))

\* open(): not ok when the magic or the sector size is wrong or the header
\* is cut short, else the parsed header.
reader_open(f) ==
    LET bad == [ok |-> FALSE, num_items |-> 0, bytes_per_hash |-> 0,
                num_hash_values |-> 0, begin |-> 0, end |-> 0]
    IN  IF Len(f) < 8 \/ SubSeq(f, 1, 8) # MagicH4 THEN bad
        ELSE IF Len(f) < mh_header_size THEN bad
        ELSE IF HdrField(f, 5) # minhash_sector_size THEN bad
        ELSE [ok |-> TRUE, num_items |-> HdrField(f, 0),
              bytes_per_hash |-> HdrField(f, 1),
              num_hash_values |-> HdrField(f, 2), begin |-> HdrField(f, 3),
              end |-> HdrField(f, 4)]

Min(a, b) == IF a <= b THEN a ELSE b

\* m_ifs.seekg(offset); m_ifs.read(p, n): the bytes read, and whether the
\* read hit the end of the file before n bytes.
seek_read(f, offset, n) ==
    [eof |-> offset + n > Len(f),
     bytes |-> SubSeq(f, offset + 1, Min(offset + n, Len(f)))]

\* The reads of read_bucket_array(), in order: each is <<offset, length>>.
\* This variant seeks the tail block as if the bands before it were full.
bucket_array_reads_fulltail(h, bucket_number) ==
    LET num_sectors == h.num_items \div minhash_sector_size
        num_remaining == h.num_items % minhash_sector_size
        bytes_per_sector_ba == minhash_sector_size * h.bytes_per_hash * h.num_hash_values
        bytes_per_sector == (h.end - h.begin) * bytes_per_sector_ba
        bytes == num_remaining * h.bytes_per_hash * h.num_hash_values
    IN  [sector \in 1..num_sectors |->
            <<mh_header_size + bytes_per_sector * (sector - 1)
                + bytes_per_sector_ba * (bucket_number - h.begin), bytes_per_sector_ba>>]
        \o (IF 0 < num_remaining
            THEN << <<mh_header_size + bytes_per_sector * num_sectors
                        + bytes_per_sector_ba * (bucket_number - h.begin), bytes>> >>
            ELSE << >>)

\* The reads of read_bucket_array(), in order: one seek and read per full
\* sector block, then one for the tail block; each is <<offset, length>>.
bucket_array_reads(h, bucket_number) ==
    LET num_sectors == h.num_items \div minhash_sector_size
        num_remaining == h.num_items % minhash_sector_size
        bytes_per_sector_ba == minhash_sector_size * h.bytes_per_hash * h.num_hash_values
        bytes_per_sector == (h.end - h.begin) * bytes_per_sector_ba
        bytes == num_remaining * h.bytes_per_hash * h.num_hash_values
    IN  [sector \in 1..num_sectors |->
            <<mh_header_size + bytes_per_sector * (sector - 1)
                + bytes_per_sector_ba * (bucket_number - h.begin), bytes_per_sector_ba>>]
        \o (IF 0 < num_remaining
            THEN << <<mh_header_size + bytes_per_sector * num_sectors
                        + bytes * (bucket_number - h.begin), bytes>> >>
            ELSE << >>)

\* read_bucket_array(): the reads are done in order into the buffer, and the
\* first one that hits the end of the file throws.
read_bucket_array(f, h, bucket_number) ==
    LET rs == bucket_array_reads(h, bucket_number)
        S[n \in 0..Len(rs)] ==
            IF n = 0 THEN [eof |-> FALSE, bytes |-> << >>]
            ELSE IF S[n - 1].eof THEN S[n - 1]
            ELSE LET r == seek_read(f, rs[n][1], rs[n][2])
                 IN  [eof |-> r.eof, bytes |-> S[n - 1].bytes \o r.bytes]
    IN  S[Len(rs)]

MrOpen ==
    /\ mw_pc = "closed"
    /\ mr_pc = "new"
    /\ LET h == reader_open(m_ofs)
       IN  /\ mr_pc' = IF h.ok THEN "open" ELSE "failed"
           /\ mr_hdr' = h
    /\ UNCHANGED <<mw_pc, mw_stream, m_num_items, m_num_hash_values, m_begin, m_end,
                   m_i, m_bas, m_ofs, put_rows, mr_band, mr_buffer>>
    /\ UNCHANGED notMh

MrReadBucketArray ==
    /\ mr_pc = "open"
    /\ \E b \in mr_hdr.begin..(mr_hdr.end - 1) :
        LET r == read_bucket_array(m_ofs, mr_hdr, b)
        IN  /\ mr_band' = b
            /\ mr_buffer' = r.bytes
            /\ mr_pc' = IF r.eof THEN "failed" ELSE "open"
    /\ UNCHANGED <<mw_pc, mw_stream, m_num_items, m_num_hash_values, m_begin, m_end,
                   m_i, m_bas, m_ofs, put_rows, mr_hdr>>
    /\ UNCHANGED notMh

MhNext == MwPut \/ MwClose \/ MrOpen \/ MrReadBucketArray

\* The codec at rest, in the specifications of the other programs.
MhIdle ==
    /\ mw_pc = "closed"
    /\ mw_stream = 0
    /\ m_num_items = 0
    /\ m_num_hash_values = 0
    /\ m_begin = 0
    /\ m_end = 0
    /\ m_i = 0
    /\ m_bas = << >>
    /\ m_ofs = << >>
    /\ put_rows = << >>
    /\ mr_pc = "failed"
    /\ mr_hdr = [ok |-> FALSE, num_items |-> 0, bytes_per_hash |-> 0,
                 num_hash_values |-> 0, begin |-> 0, end |-> 0]
    /\ mr_band = -1
    /\ mr_buffer = << >>

-----------------------------------------------------------------------------
(* C1 *)

\* Byte k (0 = first) of the big-endian form of a hash value.
BigEndianByte(v, k) == ByteOf(v, 7 - k)

\* The column of band b of the rows put() received: for items in put order,
\* the H hash values of band b, each in its 8 big-endian bytes.
ExpectedColumn(b) ==
    LET H == m_num_hash_values
    IN  [p \in 1..(Len(put_rows) * H * 8) |->
            LET item == (p - 1) \div (H * 8)
                hh == ((p - 1) % (H * 8)) \div 8
                k == (p - 1) % 8
            IN  BigEndianByte(put_rows[item + 1][(b - m_begin) * H + hh + 1], k)]

\* C1: after any sequence of N put(row) calls and close(), a MinHashReader
\* opened on the file reports num_items = N and the parameters the writer was
\* opened with, and read_bucket_array(b) returns for every band b of
\* [begin, end), for the items in put order, the H hash values put() received
\* for band b (in big-endian bytes).
C1_RoundTrip ==
    /\ (mw_pc = "closed" /\ mr_pc # "new") =>
            /\ mr_pc = "open"
            /\ mr_hdr.num_items = Len(put_rows)
            /\ mr_hdr.num_hash_values = m_num_hash_values
            /\ mr_hdr.begin = m_begin
            /\ mr_hdr.end = m_end
    /\ mr_band # -1 => (mr_pc = "open" /\ mr_buffer = ExpectedColumn(mr_band))

\* A file of more than one sector block with a short tail block has been
\* read back at a band other than the first.
C1_Witness ==
    /\ mr_pc = "open"
    /\ mr_band > m_begin
    /\ Len(put_rows) > minhash_sector_size
    /\ Len(put_rows) % minhash_sector_size # 0
    /\ mr_buffer = ExpectedColumn(mr_band)

-----------------------------------------------------------------------------
(* doubri-dedup: bounds and inputs *)

\* The largest number of items of a group (over all its shards).
MaxItems == 3

\* The numbers of shards of a group.
ShardCounts == {1, 2}

\* The (num_hash_values, begin, end) of the shards of a group.
DedupParams ==
    { [H |-> 1, begin |-> 0, end |-> 1],
      [H |-> 1, begin |-> 0, end |-> 2],
      [H |-> 2, begin |-> 1, end |-> 2] }

\* The group numbers given with --group.
Groups == {513}

\* The first hash value of a bucket; the bucket of value v holds the H hash
\* values v, v+1, ..., each in 8 big-endian bytes.
HashVals == {1, 2, 256}

BucketOf(v, H) == WordsToBytes([h \in 1..H |-> bswap_64(Mem64(v + h - 1))])

\* The bytes of a sequence of byte strings of length len each.
Flatten(ss, len) ==
    [p \in 1..(Len(ss) * len) |-> ss[((p - 1) \div len) + 1][((p - 1) % len) + 1]]

\* A MinHash file: the header of minhash.hpp:116-129 with num_items patched
\* in, then the bucket slots of the body in file order.
ShardFile(n, prm, slots) ==
    patch_num_items(WriterHeader(prm.H, prm.begin, prm.end), n)
        \o Flatten(slots, bytes_per_uint64 * prm.H)

\* The ways to give K shards their numbers of items, MaxItems in all at most.
ShardSizes(K) ==
    { sz \in [1..K -> 0..MaxItems] :
        LET S[k \in 0..K] == IF k = 0 THEN 0 ELSE S[k - 1] + sz[k]
        IN  S[K] <= MaxItems }

SumTo(sz, k) ==
    LET S[n \in 0..k] == IF n = 0 THEN 0 ELSE S[n - 1] + sz[n]
    IN  S[k]

-----------------------------------------------------------------------------
(* doubri-dedup: Item (dedup.cc:60-135) *)

\* std::memcmp that walks the bytes from the last one to the first.
memcmp_from_end(a, b) ==
    LET d == {k \in 1..Len(a) : a[k] # b[k]}
    IN  IF d = {} THEN 0
        ELSE LET k == CHOOSE x \in d : \A y \in d : y <= x
             IN  IF a[k] < b[k] THEN -1 ELSE 1

\* std::memcmp(a, b, n) on two byte strings of n bytes: the sign.
memcmp(a, b) ==
    LET d == {k \in 1..Len(a) : a[k] # b[k]}
    IN  IF d = {} THEN 0
        ELSE LET k == CHOOSE x \in d : \A y \in d : x <= y
             IN  IF a[k] < b[k] THEN -1 ELSE 1

\* Item::ptr(): the bucket of the item with index i in the buffer.
ItemPtr(buf, i) == buf[i + 1]

\* operator<=> with the tie on equal buckets broken by descending index.
ItemLess_descending_tie(buf, x, y) ==
    LET order == memcmp(ItemPtr(buf, x), ItemPtr(buf, y))
    IN  IF order = 0 THEN x > y ELSE order < 0

\* operator<=> (dedup.cc:79-83), as the x < y that sorting uses.
ItemLess(buf, x, y) ==
    LET order == memcmp(ItemPtr(buf, x), ItemPtr(buf, y))
    IN  IF order = 0 THEN x < y ELSE order < 0

\* operator== (dedup.cc:96-99): equal buckets, whatever the indices.
ItemEq(buf, x, y) == memcmp(ItemPtr(buf, x), ItemPtr(buf, y)) = 0

\* tbb::parallel_sort(m_items.begin(), m_items.end()): the items in the one
\* order operator< allows (a strict total order on distinct indices).
parallel_sort(items, buf) ==
    LET elems == {items[k] : k \in 1..Len(items)}
    IN  [p \in 1..Len(items) |->
            CHOOSE x \in elems :
                Cardinality({y \in elems : ItemLess(buf, y, x)}) = p - 1]

-----------------------------------------------------------------------------
(* doubri-dedup: MinHashLSH *)

\* HashFile::filename of the k-th line of STDIN (append_file, dedup.cc:194-200).
HashFileName(k) == [dir |-> "", base |-> ToString(k)]

\* initialize() (dedup.cc:202-272): the loop over the hash files.  The
\* result is not ok when a magic is wrong or a parameter differs from the
\* first file's.
lsh_initialize(files) ==
    LET F[k \in 0..Len(files)] ==
            IF k = 0
            THEN [ok |-> TRUE, num_items |-> 0, bytes_per_hash |-> 0,
                  num_hash_values |-> 0, begin |-> 0, end |-> 0, hfs |-> << >>]
            ELSE LET prev == F[k - 1]
                     f == files[k]
                     num_items == HdrField(f, 0)
                     bytes_per_hash == HdrField(f, 1)
                     num_hash_values == HdrField(f, 2)
                     begin == HdrField(f, 3)
                     end == HdrField(f, 4)
                     hf == [filename |-> HashFileName(k), num_items |-> num_items,
                            start_index |-> prev.num_items]
                 IN  IF ~prev.ok THEN prev
                     ELSE IF Len(f) < 8 \/ SubSeq(f, 1, 8) # MagicH4
                     THEN [prev EXCEPT !.ok = FALSE]
                     ELSE IF prev.bytes_per_hash = 0
                     THEN [ok |-> TRUE, num_items |-> num_items,
                           bytes_per_hash |-> bytes_per_hash,
                           num_hash_values |-> num_hash_values,
                           begin |-> begin, end |-> end,
                           hfs |-> Append(prev.hfs, hf)]
                     ELSE IF \/ prev.bytes_per_hash # bytes_per_hash
                             \/ prev.num_hash_values # num_hash_values
                             \/ prev.begin # begin
                             \/ prev.end # end
                     THEN [prev EXCEPT !.ok = FALSE]
                     ELSE [prev EXCEPT !.num_items = @ + num_items,
                                       !.hfs = Append(@, hf)]
    IN  F[Len(files)]

\* The line "#G <group>" (dedup.cc:589): a line of the source file without
\* a TAB.
group_line(group) ==
    [tab |-> FALSE, num_items |-> 0,
     source |-> [dir |-> "", base |-> "#G " \o ToString(group)]]

\* A source list that gives for every hash file the index of its first item
\* in place of its number of items.
source_list_start_index(group, hfs) ==
    <<group_line(group)>> \o
    [k \in 1..Len(hfs) |->
        [tab |-> TRUE, num_items |-> hfs[k].start_index, source |-> hfs[k].filename]]

\* The source list the deduper writes (dedup.cc:588-594): the group line,
\* then "<num_items>\t<filename>" for every hash file in order.
source_list(group, hfs) ==
    <<group_line(group)>> \o
    [k \in 1..Len(hfs) |->
        [tab |-> TRUE, num_items |-> hfs[k].num_items, source |-> hfs[k].filename]]

\* A file that does not exist.
NoFile == [exists |-> FALSE, content |-> << >>]

\* No file is refused.
NoFault == [kind |-> "none", band |-> 0, k |-> 0]

\* std::ifstream ifs(hf.filename) of the task of shard k in band bn fails
\* (dedup.cc:341-342).
shard_cannot_open(k, bn) ==
    dd_fault.kind = "shard" /\ dd_fault.band = bn /\ dd_fault.k = k

\* writer.open() of band bn returns an error message (index.hpp:99-102).
index_cannot_open(bn) == dd_fault.kind = "index" /\ dd_fault.band = bn

\* The state of an ifstream just opened.
GoodStream == [eof |-> FALSE, fail |-> FALSE]

\* The streams of the load tasks of a band, one per shard.
StartStreams(hfs) == [k \in 1..Len(hfs) |-> GoodStream]

\* No item slot has been written in the band.
NoWrites(n) == [i \in 1..n |-> << >>]

\* The load tasks of a band (dedup.cc:337-338): j = 0 for every shard; a
\* shard without items has nothing to read.
StartTasks(hfs) == [k \in 1..Len(hfs) |-> IF hfs[k].num_items = 0 THEN -1 ELSE 0]

\* run() (dedup.cc:465): the loop test, before the first band and after each.
AfterBand(bn, end) == IF bn < end THEN "load" ELSE "done"

DdInit ==
    \E prm \in DedupParams, K \in ShardCounts :
      \E sz \in ShardSizes(K) :
        \E cells \in [1..(SumTo(sz, K) * (prm.end - prm.begin)) -> HashVals] :
            /\ dd_files = [k \in 1..K |->
                    ShardFile(sz[k], prm,
                        [c \in 1..(sz[k] * (prm.end - prm.begin)) |->
                            BucketOf(cells[SumTo(sz, k - 1) * (prm.end - prm.begin) + c],
                                     prm.H)])]
            /\ dd_group \in Groups
            /\ dd_save_index \in BOOLEAN
            /\ dd_pc = "initialize"
            /\ lsh_hfs = << >>
            /\ lsh_num_items = 0
            /\ lsh_bytes_per_hash = 0
            /\ lsh_num_hash_values = 0
            /\ lsh_begin = 0
            /\ lsh_end = 0
            /\ lsh_buffer = << >>
            /\ lsh_items = << >>
            /\ lsh_flags = << >>
            /\ dd_bn = 0
            /\ dd_task = << >>
            /\ dd_idx = << >>
            /\ dd_cols = << >>
            /\ dd_flags0 = << >>
            /\ dd_everD = {}
            /\ dd_src = NoFile
            /\ dd_dup = NoFile
            /\ dd_ret = -1
            /\ dd_ifs = << >>
            /\ dd_fault = NoFault
            /\ dd_wrote = << >>

\* main's test of the group number (dedup.cc:556): group < 0 || 0xFFFF < group.
group_out_of_range(group) == group < 0 \/ 65535 < group

\* main up to initialize() (dedup.cc:555-577): the test of the group number,
\* which returns 1, then initialize(), whose exception nothing catches
\* (the process aborts, status 134).
DdInitialize ==
    /\ dd_pc = "initialize"
    /\ IF group_out_of_range(dd_group)
       THEN /\ dd_pc' = "exit"
            /\ dd_ret' = 1
            /\ UNCHANGED <<lsh_hfs, lsh_num_items, lsh_bytes_per_hash,
                           lsh_num_hash_values, lsh_begin, lsh_end, lsh_buffer,
                           lsh_items, lsh_flags, dd_flags0, dd_bn, dd_task>>
       ELSE LET r == lsh_initialize(dd_files)
                bpb == r.bytes_per_hash * r.num_hash_values
            IN  /\ lsh_hfs' = r.hfs
                /\ lsh_num_items' = r.num_items
                /\ lsh_bytes_per_hash' = r.bytes_per_hash
                /\ lsh_num_hash_values' = r.num_hash_values
                /\ lsh_begin' = r.begin
                /\ lsh_end' = r.end
                /\ IF r.ok
                   THEN /\ lsh_buffer' = [i \in 1..r.num_items |-> [b \in 1..bpb |-> 0]]
                        /\ lsh_items' = [i \in 1..r.num_items |-> 0]
                        /\ lsh_flags' = [i \in 1..r.num_items |-> " "]
                        /\ dd_flags0' = lsh_flags'
                        /\ dd_bn' = r.begin
                        /\ dd_task' = StartTasks(r.hfs)
                        /\ dd_pc' = "sources"
                        /\ dd_ret' = dd_ret
                   ELSE /\ dd_pc' = "failed"
                        /\ dd_ret' = 134
                        /\ UNCHANGED <<lsh_buffer, lsh_items, lsh_flags, dd_flags0,
                                       dd_bn, dd_task>>
    /\ dd_ifs' = IF dd_pc' = "sources" THEN StartStreams(lsh_hfs') ELSE dd_ifs
    /\ dd_wrote' = IF dd_pc' = "sources" THEN NoWrites(lsh_num_items') ELSE dd_wrote
    /\ UNCHANGED <<dd_files, dd_group, dd_save_index, dd_idx, dd_cols, dd_everD,
                   dd_src, dd_dup, dd_fault>>
    /\ UNCHANGED notDd

\* main, the list of source files (dedup.cc:579-600), then the entry of run().
DdWriteSources ==
    /\ dd_pc = "sources"
    /\ dd_src' = [exists |-> TRUE, content |-> source_list(dd_group, lsh_hfs)]
    /\ dd_pc' = AfterBand(lsh_begin, lsh_end)
    /\ UNCHANGED <<dd_files, dd_group, dd_save_index, lsh_hfs, lsh_num_items,
                   lsh_bytes_per_hash, lsh_num_hash_values, lsh_begin, lsh_end,
                   lsh_buffer, lsh_items, lsh_flags, dd_bn, dd_task, dd_idx, dd_cols,
                   dd_flags0, dd_everD, dd_dup, dd_ret>>
    /\ UNCHANGED ddIo
    /\ UNCHANGED notDd

\* The read of the bucket of local item j of a hash file (dedup.cc:350-352):
\* ifs.seekg(32 + bytes_per_item * j + offset_bucket), then ifs.read of
\* bytes_per_bucket bytes.
load_bucket(f, bytes_per_bucket, begin, end, bucket_number, j) ==
    LET bytes_per_item == bytes_per_bucket * (end - begin)
        offset_bucket == bytes_per_bucket * (bucket_number - begin)
    IN  seek_read(f, mh_header_size + bytes_per_item * j + offset_bucket, bytes_per_bucket)

\* The same read on a stream in state ifs.  seekg clears eofbit and does
\* nothing more when failbit is set, and read then reads nothing; a read
\* that comes short sets eofbit and failbit.
load_bucket_on(ifs, f, bytes_per_bucket, begin, end, bucket_number, j) ==
    IF ifs.fail
    THEN [bytes |-> << >>, ifs |-> [eof |-> FALSE, fail |-> TRUE]]
    ELSE LET r == load_bucket(f, bytes_per_bucket, begin, end, bucket_number, j)
         IN  [bytes |-> r.bytes, ifs |-> [eof |-> r.eof, fail |-> r.eof]]

\* Every task counting its slots from 0.
item_slot_from_zero(hf, j) == j

\* size_t i = hf.start_index, then ++i with every item (dedup.cc:338, 353):
\* the slot of local item j.
item_slot(hf, j) == hf.start_index + j

\* One turn of the read loop of the load task of shard k (dedup.cc:349-354);
\* the task ends with its last item.
DdLoadStep(k) ==
    /\ dd_pc = "load"
    /\ dd_task[k] >= 0
    /\ ~shard_cannot_open(k, dd_bn)
    /\ LET hf == lsh_hfs[k]
           j == dd_task[k]
           i == item_slot(hf, j)
           bytes_per_bucket == lsh_bytes_per_hash * lsh_num_hash_values
           r == load_bucket_on(dd_ifs[k], dd_files[k], bytes_per_bucket, lsh_begin,
                               lsh_end, dd_bn, j)
       IN  /\ lsh_items' = [lsh_items EXCEPT ![i + 1] = i]
           /\ lsh_buffer' = [lsh_buffer EXCEPT ![i + 1] =
                                r.bytes \o SubSeq(@, Len(r.bytes) + 1, bytes_per_bucket)]
           /\ dd_task' = [dd_task EXCEPT ![k] = IF j + 1 < hf.num_items THEN j + 1 ELSE -1]
           /\ dd_ifs' = [dd_ifs EXCEPT ![k] = r.ifs]
           /\ dd_wrote' = [dd_wrote EXCEPT ![i + 1] = Append(@, k)]
    /\ UNCHANGED dd_fault
    /\ UNCHANGED <<dd_pc, dd_files, dd_group, dd_save_index, lsh_hfs, lsh_num_items,
                   lsh_bytes_per_hash, lsh_num_hash_values, lsh_begin, lsh_end,
                   lsh_flags, dd_bn, dd_idx, dd_cols, dd_flags0, dd_everD>>
    /\ UNCHANGED ddMain
    /\ UNCHANGED notDd

\* The end of the load task of shard k (dedup.cc:342-345, 357-364): it
\* throws when the file did not open, and when eofbit is set after the loop.
task_throws(k, bn) == shard_cannot_open(k, bn) \/ dd_ifs[k].eof

\* The join of the load tasks (dedup.cc:365): a MinHashLSHException of a
\* task leaves deduplicate_bucket(), run() and main, which catch nothing
\* (the process aborts, status 134).  Otherwise tbb::parallel_sort
\* (dedup.cc:371).
DdSort ==
    /\ dd_pc = "load"
    /\ \A k \in 1..Len(dd_task) : dd_task[k] = -1 \/ shard_cannot_open(k, dd_bn)
    /\ IF \E k \in 1..Len(dd_task) : task_throws(k, dd_bn)
       THEN /\ dd_pc' = "aborted"
            /\ dd_ret' = 134
            /\ UNCHANGED <<lsh_items, dd_cols>>
       ELSE /\ lsh_items' = parallel_sort(lsh_items, lsh_buffer)
            /\ dd_cols' = (dd_bn :> lsh_buffer) @@ dd_cols
            /\ dd_pc' = "sweep"
            /\ UNCHANGED dd_ret
    /\ UNCHANGED <<dd_files, dd_group, dd_save_index, lsh_hfs, lsh_num_items,
                   lsh_bytes_per_hash, lsh_num_hash_values, lsh_begin, lsh_end,
                   lsh_buffer, lsh_flags, dd_bn, dd_task, dd_idx, dd_flags0, dd_everD>>
    /\ UNCHANGED <<dd_src, dd_dup>>
    /\ UNCHANGED ddIo
    /\ UNCHANGED notDd

\* The sweep without its inner loop: of a run, only the item right after the
\* first gets 'd'.
find_duplicates_second_only(items, buf, flags) ==
    LET n == Len(items)
        head[p \in 0..n] ==
            IF p <= 1 THEN p
            ELSE IF ItemEq(buf, items[head[p - 1]], items[p]) THEN head[p - 1] ELSE p
        marked == {items[p] : p \in {q \in 1..n : head[q] # q /\ head[q] = q - 1}}
    IN  [i \in 1..Len(flags) |-> IF (i - 1) \in marked THEN "d" ELSE flags[i]]

\* A sweep that passes over the items already flagged 'D': the runs are those
\* of the items that are left.
find_duplicates_skipping_flagged(items, buf, flags) ==
    LET live == SelectSeq(items, LAMBDA x : flags[x + 1] # "D")
        n == Len(live)
        head[p \in 0..n] ==
            IF p <= 1 THEN p
            ELSE IF ItemEq(buf, live[head[p - 1]], live[p]) THEN head[p - 1] ELSE p
        marked == {live[p] : p \in {q \in 1..n : head[q] # q}}
    IN  [i \in 1..Len(flags) |-> IF (i - 1) \in marked THEN "d" ELSE flags[i]]

\* The sweep (dedup.cc:386-398): cur is the first item of a run, next runs to
\* the first item whose bucket differs from cur's, and every item of the run
\* after cur gets 'd'.
find_duplicates(items, buf, flags) ==
    LET n == Len(items)
        head[p \in 0..n] ==
            IF p <= 1 THEN p
            ELSE IF ItemEq(buf, items[head[p - 1]], items[p]) THEN head[p - 1] ELSE p
        marked == {items[p] : p \in {q \in 1..n : head[q] # q}}
    IN  [i \in 1..Len(flags) |-> IF (i - 1) \in marked THEN "d" ELSE flags[i]]

DdSweep ==
    /\ dd_pc = "sweep"
    /\ lsh_flags' = find_duplicates(lsh_items, lsh_buffer, lsh_flags)
    /\ dd_pc' = IF dd_save_index THEN "index" ELSE "promote"
    /\ UNCHANGED <<dd_files, dd_group, dd_save_index, lsh_hfs, lsh_num_items,
                   lsh_bytes_per_hash, lsh_num_hash_values, lsh_begin, lsh_end,
                   lsh_buffer, lsh_items, dd_bn, dd_task, dd_idx, dd_cols, dd_flags0,
                   dd_everD>>
    /\ UNCHANGED ddMain
    /\ UNCHANGED ddIo
    /\ UNCHANGED notDd

\* a | b on bytes that the model only joins when one of them is 0.
ByteOr(a, b) == IF a = 0 THEN b ELSE a

\* IndexWriter::write_item (common.h:128-153) for g and i given as words:
\* 0xFFFF < g looks above the low two bytes of g, 0x0000FFFFFFFFFFFF < i at
\* the high two bytes of i; then the bucket and the 64-bit value
\* (g << 48) | i, byte-swapped, as written.
write_item_w(g, i, bucket) ==
    IF \E k \in 3..8 : g[k] # 0 THEN [ok |-> FALSE, bytes |-> << >>]
    ELSE IF \E k \in 7..8 : i[k] # 0 THEN [ok |-> FALSE, bytes |-> << >>]
    ELSE LET v == [k \in 1..8 |-> IF k <= 6 THEN i[k] ELSE ByteOr(i[k], g[k - 6])]
         IN  [ok |-> TRUE, bytes |-> bucket \o bswap_64(v)]

write_item(g, i, bucket) == write_item_w(Mem64(g), Mem64(i), bucket)

\* The index write loop run on the flags as the promotion leaves them: no
\* flag is 'd' any more and every item is written.
index_records_after_promotion(items, buf, flags, g) ==
    LET promoted == [i \in 1..Len(flags) |-> IF flags[i] = "d" THEN "D" ELSE flags[i]]
        F[p \in 0..Len(items)] ==
            IF p = 0 THEN << >>
            ELSE IF promoted[items[p] + 1] # "d"
                 THEN Append(F[p - 1], write_item(g, items[p], ItemPtr(buf, items[p])).bytes)
                 ELSE F[p - 1]
    IN  F[Len(items)]

\* The index write loop writing only the items whose flag is ' '.
index_records_active_only(items, buf, flags, g) ==
    LET F[p \in 0..Len(items)] ==
            IF p = 0 THEN << >>
            ELSE IF flags[items[p] + 1] = " "
                 THEN Append(F[p - 1], write_item(g, items[p], ItemPtr(buf, items[p])).bytes)
                 ELSE F[p - 1]
    IN  F[Len(items)]

\* The index write loop (dedup.cc:424-429): the items in sorted order whose
\* flag is not 'd'.
index_records(items, buf, flags, g) ==
    LET F[p \in 0..Len(items)] ==
            IF p = 0 THEN << >>
            ELSE IF flags[items[p] + 1] # "d"
                 THEN Append(F[p - 1], write_item(g, items[p], ItemPtr(buf, items[p])).bytes)
                 ELSE F[p - 1]
    IN  F[Len(items)]

CountFlag(flags, c) == Cardinality({i \in 1..Len(flags) : flags[i] = c})

\* Saving the index (dedup.cc:406-431): the header with num_total_items and
\* num_active_items = m_num_items - num_detected, then the records.  When
\* writer.open() returns a message, the MinHashLSHException thrown at
\* dedup.cc:416-419 is caught nowhere (the process aborts, status 134).
DdSaveIndex ==
    /\ dd_pc = "index"
    /\ IF index_cannot_open(dd_bn)
       THEN /\ dd_pc' = "aborted"
            /\ dd_ret' = 134
            /\ UNCHANGED dd_idx
       ELSE /\ LET num_detected == CountFlag(lsh_flags, "d")
               IN  dd_idx' = (dd_bn :>
                        [bucket_number |-> dd_bn,
                         bytes_per_bucket |-> lsh_bytes_per_hash * lsh_num_hash_values,
                         num_total_items |-> lsh_num_items,
                         num_active_items |-> lsh_num_items - num_detected,
                         body |-> index_records(lsh_items, lsh_buffer, lsh_flags, dd_group)])
                      @@ dd_idx
            /\ dd_pc' = "promote"
            /\ UNCHANGED dd_ret
    /\ UNCHANGED <<dd_files, dd_group, dd_save_index, lsh_hfs, lsh_num_items,
                   lsh_bytes_per_hash, lsh_num_hash_values, lsh_begin, lsh_end,
                   lsh_buffer, lsh_items, lsh_flags, dd_bn, dd_task, dd_cols,
                   dd_flags0, dd_everD>>
    /\ UNCHANGED <<dd_src, dd_dup>>
    /\ UNCHANGED ddIo
    /\ UNCHANGED notDd

\* A promotion that leaves the flags as they are.
promote_skipped(flags) == flags

\* A promotion that recomputes the flag from this band alone.
promote_this_band_only(flags) ==
    [i \in 1..Len(flags) |-> IF flags[i] = "d" THEN "D" ELSE " "]

\* std::toupper on every flag (dedup.cc:434-436): 'd' -> 'D'.
promote(flags) ==
    [i \in 1..Len(flags) |-> IF flags[i] = "d" THEN "D" ELSE flags[i]]

\* The promotion, the end of deduplicate_bucket() and the next turn of the
\* loop of run().
DdPromote ==
    /\ dd_pc = "promote"
    /\ lsh_flags' = promote(lsh_flags)
    /\ dd_flags0' = lsh_flags'
    /\ dd_everD' = dd_everD \cup {i \in 0..(Len(lsh_flags) - 1) : lsh_flags'[i + 1] = "D"}
    /\ dd_bn' = dd_bn + 1
    /\ dd_task' = StartTasks(lsh_hfs)
    /\ dd_ifs' = StartStreams(lsh_hfs)
    /\ dd_wrote' = NoWrites(lsh_num_items)
    /\ UNCHANGED dd_fault
    /\ dd_pc' = AfterBand(dd_bn + 1, lsh_end)
    /\ UNCHANGED <<dd_files, dd_group, dd_save_index, lsh_hfs, lsh_num_items,
                   lsh_bytes_per_hash, lsh_num_hash_values, lsh_begin, lsh_end,
                   lsh_buffer, lsh_items, dd_idx, dd_cols>>
    /\ UNCHANGED ddMain
    /\ UNCHANGED notDd

\* run() (dedup.cc:460-468) with the bands taken in the given order: for each
\* band the items 0 .. n-1 with the buckets loaded for it are sorted, swept
\* and promoted (deduplicate_bucket, dedup.cc:371-436).
run_in_order(order, cols, flags) ==
    LET items == [i \in 1..Len(flags) |-> i - 1]
        F[k \in 0..Len(order)] ==
            IF k = 0 THEN flags
            ELSE LET buf == cols[order[k]]
                 IN  promote(find_duplicates(parallel_sort(items, buf), buf, F[k - 1]))
    IN  F[Len(order)]

\* flag_save(filename, m_flags): the file holds the flags, one byte each and
\* nothing else.
flag_save(flags) == [exists |-> TRUE, content |-> flags]

\* main after run() (dedup.cc:605-608): save_flag(flagfile); return 0.
DdSaveFlag ==
    /\ dd_pc = "done"
    /\ dd_dup' = flag_save(lsh_flags)
    /\ dd_pc' = "exit"
    /\ dd_ret' = 0
    /\ UNCHANGED <<dd_files, dd_group, dd_save_index, lsh_hfs, lsh_num_items,
                   lsh_bytes_per_hash, lsh_num_hash_values, lsh_begin, lsh_end,
                   lsh_buffer, lsh_items, lsh_flags, dd_bn, dd_task, dd_idx, dd_cols,
                   dd_flags0, dd_everD, dd_src>>
    /\ UNCHANGED ddIo
    /\ UNCHANGED notDd

DdNext ==
    \/ DdInitialize
    \/ DdWriteSources
    \/ \E k \in 1..Len(dd_task) : DdLoadStep(k)
    \/ DdSort
    \/ DdSweep
    \/ DdSaveIndex
    \/ DdPromote
    \/ DdSaveFlag


\* ---- doubri-dedup given any files: well-formed shards and others ----

\* "DoubriI4": eight bytes that are not the magic of a MinHash file.
MagicOther == <<68, 111, 117, 98, 114, 105, 73, 52>>

\* The header of a MinHash file (minhash.hpp:116-129): the magic, then
\* num_items, bytes_per_hash, num_hash_values, begin, end and sector_size.
MhHeader(h) ==
    h.magic \o Mem32(h.n) \o Mem32(h.bph) \o Mem32(h.H)
            \o Mem32(h.begin) \o Mem32(h.end) \o Mem32(h.sector)

\* The headers of the files given to the deduper: shards of 0, 1 and 2 items
\* as the writer makes them for H = 1 and the band [0, 1); shards of one item
\* that differ from those in one parameter; a file whose bytes_per_hash is 0;
\* a file with another magic; a file with another sector size.
DmHeaders ==
    { [magic |-> MagicH4, n |-> n, bph |-> bytes_per_uint64, H |-> 1, begin |-> 0,
       end |-> 1, sector |-> minhash_sector_size] : n \in {0, 1, 2} }
    \cup
    { [magic |-> MagicH4, n |-> 1, bph |-> bytes_per_uint64, H |-> 2, begin |-> 0,
       end |-> 1, sector |-> minhash_sector_size],
      [magic |-> MagicH4, n |-> 1, bph |-> bytes_per_uint64, H |-> 1, begin |-> 0,
       end |-> 2, sector |-> minhash_sector_size],
      [magic |-> MagicH4, n |-> 1, bph |-> bytes_per_uint64, H |-> 1, begin |-> 1,
       end |-> 2, sector |-> minhash_sector_size],
      [magic |-> MagicH4, n |-> 1, bph |-> 4, H |-> 1, begin |-> 0,
       end |-> 1, sector |-> minhash_sector_size],
      [magic |-> MagicH4, n |-> 0, bph |-> 0, H |-> 1, begin |-> 0,
       end |-> 1, sector |-> minhash_sector_size],
      [magic |-> MagicOther, n |-> 1, bph |-> bytes_per_uint64, H |-> 1, begin |-> 0,
       end |-> 1, sector |-> minhash_sector_size],
      [magic |-> MagicH4, n |-> 1, bph |-> bytes_per_uint64, H |-> 1, begin |-> 0,
       end |-> 1, sector |-> 256] }

\* The file of header h: its body is one slot of bph * H bytes per item and
\* band, and slot c is filled with the byte fill[c].
DmFile(h, fill) ==
    MhHeader(h) \o
    Flatten([c \in 1..(h.n * (h.end - h.begin)) |-> [b \in 1..(h.bph * h.H) |-> fill[c]]],
            h.bph * h.H)

\* The values of --group, in and out of [0, 65535].
DmGroups == {-1, 0, 65535, 65536}

DmInit ==
    \E K \in ShardCounts :
      \E hs \in [1..K -> DmHeaders], fills \in [1..K -> [1..2 -> {1, 2}]] :
            /\ dd_files = [k \in 1..K |-> DmFile(hs[k], fills[k])]
            /\ dd_group \in DmGroups
            /\ dd_save_index \in BOOLEAN
            /\ dd_pc = "initialize"
            /\ lsh_hfs = << >>
            /\ lsh_num_items = 0
            /\ lsh_bytes_per_hash = 0
            /\ lsh_num_hash_values = 0
            /\ lsh_begin = 0
            /\ lsh_end = 0
            /\ lsh_buffer = << >>
            /\ lsh_items = << >>
            /\ lsh_flags = << >>
            /\ dd_bn = 0
            /\ dd_task = << >>
            /\ dd_idx = << >>
            /\ dd_cols = << >>
            /\ dd_flags0 = << >>
            /\ dd_everD = {}
            /\ dd_src = NoFile
            /\ dd_dup = NoFile
            /\ dd_ret = -1
            /\ dd_ifs = << >>
            /\ dd_fault = NoFault
            /\ dd_wrote = << >>

\* ---- doubri-dedup with files that come short or do not open ----

\* The (num_hash_values, begin, end) of the shards.
DfParams == { [H |-> 1, begin |-> 0, end |-> 1], [H |-> 1, begin |-> 0, end |-> 2] }

\* The first hash value of the bucket of an item, the same in every band.
DfHashVals == {1, 2}

\* The numbers of bytes a shard lacks at its end: none, a part of the last
\* bucket, the last bucket, the last bucket and a part of the one before.
DfCuts == {0, 1, 8, 9}

\* File f without its last c bytes, or without its body when that is shorter.
truncated(f, c) ==
    SubSeq(f, 1, IF Len(f) - c < mh_header_size THEN mh_header_size ELSE Len(f) - c)

\* What goes wrong in a run: nothing, a shard that does not open in a band,
\* or an index file that does not open in a band.
DfFaults(K, prm) ==
    {NoFault}
    \cup {[kind |-> "shard", band |-> b, k |-> k] : b \in prm.begin..(prm.end - 1), k \in 1..K}
    \cup {[kind |-> "index", band |-> b, k |-> 0] : b \in prm.begin..(prm.end - 1)}

DfInit ==
    \E prm \in DfParams, K \in ShardCounts :
      \E sz \in ShardSizes(K), kc \in 1..K, c \in DfCuts, fault \in DfFaults(K, prm) :
        \E vals \in [1..SumTo(sz, K) -> DfHashVals] :
            /\ c # 0 => fault = NoFault
            /\ dd_files = [k \in 1..K |->
                    truncated(
                        ShardFile(sz[k], prm,
                            [s \in 1..(sz[k] * (prm.end - prm.begin)) |->
                                BucketOf(vals[SumTo(sz, k - 1)
                                              + ((s - 1) \div (prm.end - prm.begin)) + 1],
                                         prm.H)]),
                        IF k = kc THEN c ELSE 0)]
            /\ dd_fault = fault
            /\ dd_group \in Groups
            /\ dd_save_index \in BOOLEAN
            /\ dd_pc = "initialize"
            /\ lsh_hfs = << >>
            /\ lsh_num_items = 0
            /\ lsh_bytes_per_hash = 0
            /\ lsh_num_hash_values = 0
            /\ lsh_begin = 0
            /\ lsh_end = 0
            /\ lsh_buffer = << >>
            /\ lsh_items = << >>
            /\ lsh_flags = << >>
            /\ dd_bn = 0
            /\ dd_task = << >>
            /\ dd_idx = << >>
            /\ dd_cols = << >>
            /\ dd_flags0 = << >>
            /\ dd_everD = {}
            /\ dd_src = NoFile
            /\ dd_dup = NoFile
            /\ dd_ret = -1
            /\ dd_ifs = << >>
            /\ dd_wrote = << >>

\* The deduper at rest, in the specifications of the other programs.
DdIdle ==
    /\ dd_pc = "idle"
    /\ dd_files = << >>
    /\ dd_group = 0
    /\ dd_save_index = FALSE
    /\ lsh_hfs = << >>
    /\ lsh_num_items = 0
    /\ lsh_bytes_per_hash = 0
    /\ lsh_num_hash_values = 0
    /\ lsh_begin = 0
    /\ lsh_end = 0
    /\ lsh_buffer = << >>
    /\ lsh_items = << >>
    /\ lsh_flags = << >>
    /\ dd_bn = 0
    /\ dd_task = << >>
    /\ dd_idx = << >>
    /\ dd_cols = << >>
    /\ dd_flags0 = << >>
    /\ dd_everD = {}
    /\ dd_src = NoFile
    /\ dd_dup = NoFile
    /\ dd_ret = -1
    /\ dd_ifs = << >>
    /\ dd_fault = NoFault
    /\ dd_wrote = << >>

-----------------------------------------------------------------------------
(* Reading the claims: byte strings and index records *)

\* a before b in the lexicographic order of byte strings of one length.
LexLess(a, b) ==
    \E k \in 1..Len(a) : a[k] < b[k] /\ \A m \in 1..(k - 1) : a[m] = b[m]

\* The number a byte string is in big-endian.
BigEndianValue(bs) ==
    LET F[k \in 0..Len(bs)] == IF k = 0 THEN 0 ELSE F[k - 1] * 256 + bs[k]
    IN  F[Len(bs)]

\* The parts of an index record: bucket bytes, then 2 bytes of group and 6
\* bytes of item index, big-endian.
RecBucket(rec) == SubSeq(rec, 1, Len(rec) - 8)
RecGroup(rec) == BigEndianValue(SubSeq(rec, Len(rec) - 7, Len(rec) - 6))
RecIndex(rec) == BigEndianValue(SubSeq(rec, Len(rec) - 5, Len(rec)))

-----------------------------------------------------------------------------
(* C2 - C6: the group deduper *)

DdItems == 0..(lsh_num_items - 1)

DdBands == lsh_begin..(lsh_end - 1)

\* Item j has, in the column loaded for band b, the bucket of an item before it.
HasEarlierEqual(b, j) ==
    \E i \in 0..(j - 1) : dd_cols[b][i + 1] = dd_cols[b][j + 1]

\* The item indices of the records of the index of band b.
IdxItems(b) == {RecIndex(dd_idx[b].body[k]) : k \in 1..Len(dd_idx[b].body)}

\* C2: first wins.  After the sweep of a band, an item is marked 'd' exactly
\* when an item with a lower index has the same bucket bytes in that band
\* (the lowest-index item of every run of equal buckets is left as it was);
\* and when run() has processed every band of [begin, end), item j carries
\* 'D' if and only if some band b has an item i < j with the bucket bytes of j.
C2_FirstWins ==
    /\ dd_pc \in {"index", "promote"} =>
            \A j \in DdItems :
                lsh_flags[j + 1] = IF HasEarlierEqual(dd_bn, j) THEN "d"
                                   ELSE dd_flags0[j + 1]
    /\ dd_pc = "done" =>
            \A j \in DdItems :
                lsh_flags[j + 1] = "D" <=> \E b \in DdBands : HasEarlierEqual(b, j)

\* A run over two bands has ended with an item that is a duplicate in the
\* second band only and a later-than-first item that is no duplicate.
C2_Witness ==
    /\ dd_pc = "done"
    /\ lsh_end - lsh_begin = 2
    /\ \E j \in DdItems :
        /\ lsh_flags[j + 1] = "D"
        /\ ~HasEarlierEqual(lsh_begin, j)
    /\ \E i \in DdItems : i > 0 /\ lsh_flags[i + 1] = " "

\* C3 as claimed: an item that has flag 'D' when band b starts has no record
\* in the index written for band b.
C3_NoDInLaterIndex ==
    (dd_pc = "promote" /\ dd_save_index) =>
        \A j \in DdItems : dd_flags0[j + 1] = "D" => j \notin IdxItems(dd_bn)

\* C3, amended: the index written for band b leaves out exactly the items
\* marked 'd' in band b; an item that has flag 'D' when band b starts has a
\* record in it if and only if no item with a lower index has its bucket
\* bytes in band b.
C3_DInLaterIndexUnlessRedetected ==
    (dd_pc = "promote" /\ dd_save_index) =>
        \A j \in DdItems :
            /\ lsh_flags[j + 1] = "d" => j \notin IdxItems(dd_bn)
            /\ dd_flags0[j + 1] = "D" =>
                    (j \in IdxItems(dd_bn) <=> ~HasEarlierEqual(dd_bn, j))

\* The index of a later band has been written with one item flagged 'D'
\* before the band in it and another such item left out.
C3_Witness ==
    /\ dd_pc = "promote"
    /\ dd_save_index
    /\ \E j \in DdItems : dd_flags0[j + 1] = "D" /\ j \in IdxItems(dd_bn)
    /\ \E j \in DdItems : dd_flags0[j + 1] = "D" /\ j \notin IdxItems(dd_bn)

\* deduplicate_bucket() has just ended (or run() has).
AtBandEnd == dd_pc \in {"load", "done"} /\ dd_bn > lsh_begin

\* C4: the flags are monotone across bands.  An item that had 'D' at the end
\* of a call of deduplicate_bucket() has 'D' at the end of every later call,
\* and no step of a run raises the number of ' ' flags.
C4_FlagsMonotone ==
    [][ /\ AtBandEnd' =>
            \A j \in dd_everD : lsh_flags'[j + 1] = "D"
        /\ dd_pc # "initialize" =>
            CountFlag(lsh_flags', " ") <= CountFlag(lsh_flags, " ") ]_vars

\* A run over two bands has ended with an item flagged in the first band
\* that the second band did not detect again.
C4_Witness ==
    /\ dd_pc = "done"
    /\ lsh_end - lsh_begin = 2
    /\ \E j \in DdItems :
        /\ HasEarlierEqual(lsh_begin, j)
        /\ ~HasEarlierEqual(lsh_begin + 1, j)
        /\ lsh_flags[j + 1] = "D"

\* C5: every index file the deduper writes is strictly increasing: of two
\* consecutive records, the bytes of the earlier (bucket, then the big-endian
\* (g << 48) | i) are lexicographically smaller than those of the later.
C5_IndexStrictlyIncreasing ==
    \A b \in DOMAIN dd_idx :
        \A k \in 1..(Len(dd_idx[b].body) - 1) :
            /\ Len(dd_idx[b].body[k]) = dd_idx[b].bytes_per_bucket + 8
            /\ LexLess(dd_idx[b].body[k], dd_idx[b].body[k + 1])

\* An index of three records has been written.
C5_Witness ==
    \E b \in DOMAIN dd_idx : Len(dd_idx[b].body) >= 3

\* C6: the index of band b holds exactly one record for each bucket value
\* that occurs among the items of the group in band b, and the record carries
\* the group and the lowest index among the items with that bucket value.
C6_OneRepresentativePerBucket ==
    \A b \in DOMAIN dd_idx :
        LET body == dd_idx[b].body
            values == {dd_cols[b][j + 1] : j \in DdItems}
        IN  /\ Len(body) = Cardinality(values)
            /\ dd_idx[b].num_active_items = Len(body)
            /\ \A v \in values :
                \E k \in 1..Len(body) :
                    /\ RecBucket(body[k]) = v
                    /\ RecGroup(body[k]) = dd_group
                    /\ RecIndex(body[k]) =
                        CHOOSE j \in DdItems :
                            /\ dd_cols[b][j + 1] = v
                            /\ \A i \in 0..(j - 1) : dd_cols[b][i + 1] # v

\* An index has been written for a band in which a bucket value is shared
\* by several items and another is not; the second band's index, with an
\* item flagged in the first band as the representative of its bucket.
C6_Witness ==
    \E b \in DOMAIN dd_idx :
        /\ b > lsh_begin
        /\ Len(dd_idx[b].body) = 2
        /\ lsh_num_items = 3
        /\ \E j \in IdxItems(b) : HasEarlierEqual(lsh_begin, j)

-----------------------------------------------------------------------------
(* doubri-merge: bounds and inputs *)

\* The largest number of records of a source index.
MaxRecs == 2

\* The numbers of sources given to merge_index.
MgSourceCounts == {0, 1, 2}

\* The bytes_per_bucket of the source indices.
MgBytesPerBucket == {1, 2}

\* The groups that wrote the source indices.
MgGroups == {1, 256}

\* The (last bucket byte, item index) of the records of a source index.
MgItems == {<<1, 1>>, <<1, 256>>, <<2, 1>>}

MgBucket(v, bpb) == [p \in 1..bpb |-> IF p = bpb THEN v ELSE 0]

\* The records a deduper run of group g writes (common.h:128-153).
MgRecords(g, bpb) ==
    {write_item(g, it[2], MgBucket(it[1], bpb)).bytes : it \in MgItems}

SeqsUpTo(S, n) == UNION {[1..m -> S] : m \in 0..n}

\* An index file: the header of index.hpp:106-115, then the records.
IndexFile(magic, bn, bpb, total, active, recs) ==
    [magic |-> magic, bucket_number |-> bn, bytes_per_bucket |-> bpb,
     num_total_items |-> total, num_active_items |-> active,
     body |-> Flatten(recs, bpb + 8)]

\* The source indices: any sequence of records of one group, with the
\* header counts of a group that lost one item to deduplication; and a file
\* that is no index.
MgSourceFiles ==
    UNION { { IndexFile("DoubriI4", 0, bpb,
                        IF recs = << >> THEN 0 ELSE Len(recs) + 1, Len(recs), recs) :
                recs \in SeqsUpTo(MgRecords(g, bpb), MaxRecs) } :
            g \in MgGroups, bpb \in MgBytesPerBucket }
    \cup {IndexFile("DoubriH4", 0, 0, 0, 0, << >>)}

-----------------------------------------------------------------------------
(* doubri-merge: Item (merge.cc:114-196) *)

\* operator<=> that looks at the bucket bytes only.
Item_compare_bucket_only(x, y) ==
    LET d == {k \in 1..(Len(x) - 8) : x[k] # y[k]}
    IN  IF d = {} THEN 0
        ELSE LET k == CHOOSE a \in d : \A b \in d : a <= b
             IN  IF x[k] < y[k] THEN -1 ELSE 1

\* operator<=> (merge.cc:138-149) on the bytes m_bs of two items: the sign
\* of the first difference over all the bytes, the 8 of (g, i) included.
Item_compare(x, y) ==
    LET d == {k \in 1..Len(x) : x[k] # y[k]}
    IN  IF d = {} THEN 0
        ELSE LET k == CHOOSE a \in d : \A b \in d : a <= b
             IN  IF x[k] < y[k] THEN -1 ELSE 1

\* operator== (merge.cc:163-166): memcmp over the bucket bytes.
Item_eq(x, y) == memcmp(SubSeq(x, 1, Len(x) - 8), SubSeq(y, 1, Len(y) - 8)) = 0

HexDigit == <<"0", "1", "2", "3", "4", "5", "6", "7",
              "8", "9", "a", "b", "c", "d", "e", "f">>

\* Item::bucket() (merge.cc:168-175): two hexadecimal digits per bucket byte.
Item_bucket(bs) ==
    [p \in 1..(2 * (Len(bs) - 8)) |->
        LET byte == bs[((p - 1) \div 2) + 1]
        IN  IF p % 2 = 1 THEN HexDigit[(byte \div 16) + 1] ELSE HexDigit[(byte % 16) + 1]]

\* The loop v <<= 8; v |= m_bs[i] over the bytes first..last (0-based).
shift_or(bs, first, last) ==
    LET F[k \in (first - 1)..last] ==
            IF k = first - 1 THEN 0 ELSE F[k - 1] * 256 + bs[k + 1]
    IN  F[last]

\* Item::group() (merge.cc:177-185).
Item_group(bs) == shift_or(bs, Len(bs) - 8, Len(bs) - 7)

\* Item::index() (merge.cc:187-195).
Item_index(bs) == shift_or(bs, Len(bs) - 6, Len(bs) - 1)

\* A line of std::cout (merge.cc:260, 265).
MgLine(sign, bs) ==
    [sign |-> sign, bucket |-> Item_bucket(bs), group |-> Item_group(bs),
     index |-> Item_index(bs)]

-----------------------------------------------------------------------------
(* doubri-merge: merge_index *)

\* IndexReader::open (merge.cc:61-90) and the checks of merge.cc:213-233 over
\* the sources in order: 1 when a magic is wrong, 2 when a bytes_per_bucket
\* differs from the first source's, otherwise 0 with the sums of the counts.
merge_open(sources) ==
    LET F[k \in 0..Len(sources)] ==
            IF k = 0 THEN [ret |-> 0, bytes_per_bucket |-> 0,
                           num_total_items |-> 0, num_active_items |-> 0]
            ELSE LET prev == F[k - 1]
                     f == sources[k]
                 IN  IF prev.ret # 0 THEN prev
                     ELSE IF f.magic # "DoubriI4" THEN [prev EXCEPT !.ret = 1]
                     ELSE IF k = 1
                          THEN [ret |-> 0, bytes_per_bucket |-> f.bytes_per_bucket,
                                num_total_items |-> f.num_total_items,
                                num_active_items |-> f.num_active_items]
                     ELSE IF prev.bytes_per_bucket # f.bytes_per_bucket
                          THEN [prev EXCEPT !.ret = 2]
                     ELSE [prev EXCEPT
                              !.num_total_items = @ + f.num_total_items,
                              !.num_active_items = @ + f.num_active_items]
    IN  F[Len(sources)]

\* IndexReader::read (merge.cc:102-110) on reader r of file f: the bytes of
\* one item, or eof when the file has fewer left.
reader_read(f, r) ==
    IF r.eof \/ r.pos + r.bytes_per_item > Len(f.body)
    THEN [ok |-> FALSE, bs |-> << >>, reader |-> [r EXCEPT !.eof = TRUE]]
    ELSE [ok |-> TRUE, bs |-> SubSeq(f.body, r.pos + 1, r.pos + r.bytes_per_item),
          reader |-> [r EXCEPT !.pos = @ + r.bytes_per_item]]

\* A top taken by bucket and then by the place of the source in the list.
pq_top_by_source(pq) ==
    {t \in pq : \A x \in pq :
        LET order == Item_compare_bucket_only(x.m_bs, t.m_bs)
        IN  order > 0 \/ (order = 0 /\ x.m_k >= t.m_k)}

\* pq.top() of a priority_queue with std::greater<Item>: an item that no
\* item of the queue is less than.
pq_top(pq) == {t \in pq : \A x \in pq : Item_compare(x.m_bs, t.m_bs) >= 0}

\* No pq.push(items[k]) after a read.
refill_never(pq, k, rd) == pq

\* pq.push(items[k]) whatever readers[k].read(items[k].m_bs) returned.
refill_always(pq, k, rd) == pq \cup {[m_bs |-> rd.bs, m_k |-> k]}

\* pq.push(items[k]) when readers[k].read(items[k].m_bs) holds.
refill(pq, k, rd) == IF rd.ok THEN pq \cup {[m_bs |-> rd.bs, m_k |-> k]} ELSE pq

NoItem == [m_bs |-> << >>, m_k |-> 0]

NoWriter == [open |-> FALSE, bucket_number |-> 0, bytes_per_bucket |-> 0,
             num_total_items |-> 0, num_active_items |-> 0, body |-> << >>]

MgInit ==
    /\ mg_pc = "open"
    /\ \E K \in MgSourceCounts : mg_sources \in [1..K -> MgSourceFiles]
    /\ mg_readers = << >>
    /\ mg_writer = NoWriter
    /\ mg_pq = {}
    /\ mg_top = NoItem
    /\ mg_out = << >>
    /\ mg_ret = -1
    /\ mg_later = << >>
    /\ mg_rets = << >>
    /\ mg_exit = -1

\* merge.cc:206-246: open the readers, check them, open the writer.
MgOpen ==
    /\ mg_pc = "open"
    /\ LET o == merge_open(mg_sources)
       IN  IF o.ret # 0
           THEN /\ mg_ret' = o.ret
                /\ mg_pc' = "returned"
                /\ UNCHANGED <<mg_readers, mg_writer>>
           ELSE /\ mg_readers' =
                    [k \in 1..Len(mg_sources) |->
                        [bytes_per_item |-> mg_sources[k].bytes_per_bucket + 8,
                         pos |-> 0, eof |-> FALSE]]
                /\ mg_writer' = [open |-> TRUE, bucket_number |-> 0,
                                 bytes_per_bucket |-> o.bytes_per_bucket,
                                 num_total_items |-> o.num_total_items,
                                 num_active_items |-> o.num_active_items,
                                 body |-> << >>]
                /\ mg_pc' = "prime"
                /\ UNCHANGED mg_ret
    /\ UNCHANGED <<mg_sources, mg_pq, mg_top, mg_out>>
    /\ UNCHANGED mgMain
    /\ UNCHANGED notMg

\* merge.cc:249-253: the first item of every reader.
MgPrime ==
    /\ mg_pc = "prime"
    /\ LET rd == [k \in 1..Len(mg_sources) |-> reader_read(mg_sources[k], mg_readers[k])]
       IN  /\ mg_readers' = [k \in 1..Len(mg_sources) |-> rd[k].reader]
           /\ mg_pq' = {[m_bs |-> rd[k].bs, m_k |-> k - 1] :
                            k \in {j \in 1..Len(mg_sources) : rd[j].ok}}
    /\ mg_pc' = "top"
    /\ UNCHANGED <<mg_sources, mg_writer, mg_top, mg_out, mg_ret>>
    /\ UNCHANGED mgMain
    /\ UNCHANGED notMg

\* merge.cc:256-260: the test of the outer loop; pop the top and print it.
\* No call of the writer is made.  merge.cc:276 when the queue is empty.
MgTop ==
    /\ mg_pc = "top"
    /\ IF mg_pq = {}
       THEN /\ mg_ret' = 0
            /\ mg_pc' = "returned"
            /\ UNCHANGED <<mg_pq, mg_top, mg_out>>
       ELSE \E top \in pq_top(mg_pq) :
            /\ mg_pq' = mg_pq \ {top}
            /\ mg_top' = top
            /\ mg_out' = Append(mg_out, MgLine("+", top.m_bs))
            /\ mg_pc' = "dups"
            /\ UNCHANGED mg_ret
    /\ UNCHANGED <<mg_sources, mg_readers, mg_writer>>
    /\ UNCHANGED mgMain
    /\ UNCHANGED notMg

\* merge.cc:261-269: one turn of the inner loop.
MgDup ==
    /\ mg_pc = "dups"
    /\ mg_pq # {}
    /\ \E next \in pq_top(mg_pq) :
        /\ Item_eq(next.m_bs, mg_top.m_bs)
        /\ LET k == next.m_k
               rd == reader_read(mg_sources[k + 1], mg_readers[k + 1])
           IN  /\ mg_out' = Append(mg_out, MgLine("-", next.m_bs))
               /\ mg_readers' = [mg_readers EXCEPT ![k + 1] = rd.reader]
               /\ mg_pq' = refill(mg_pq \ {next}, k, rd)
    /\ UNCHANGED <<mg_pc, mg_sources, mg_writer, mg_top, mg_ret>>
    /\ UNCHANGED mgMain
    /\ UNCHANGED notMg

\* merge.cc:261, 270-273: the inner loop ends; read the next item of the
\* reader of top.
MgRefill ==
    /\ mg_pc = "dups"
    /\ mg_pq = {} \/ \E next \in pq_top(mg_pq) : ~Item_eq(next.m_bs, mg_top.m_bs)
    /\ LET k == mg_top.m_k
           rd == reader_read(mg_sources[k + 1], mg_readers[k + 1])
       IN  /\ mg_readers' = [mg_readers EXCEPT ![k + 1] = rd.reader]
           /\ mg_pq' = refill(mg_pq, k, rd)
    /\ mg_pc' = "top"
    /\ UNCHANGED <<mg_sources, mg_writer, mg_top, mg_out, mg_ret>>
    /\ UNCHANGED mgMain
    /\ UNCHANGED notMg

\* The loops of merge_index as functions of the sources, for comparing the
\* runs on two source lists.  merge_inner is the inner loop and the refill
\* of top's reader (merge.cc:261-273); merge_outer the outer loop
\* (merge.cc:256-274); merge_index_out what merge_index prints
\* (merge.cc:206-276).
RECURSIVE merge_inner(_, _, _, _, _)
merge_inner(sources, readers, pq, top, out) ==
    IF pq # {} /\ Item_eq((CHOOSE t \in pq_top(pq) : TRUE).m_bs, top.m_bs)
    THEN LET next == CHOOSE t \in pq_top(pq) : TRUE
             k == next.m_k
             rd == reader_read(sources[k + 1], readers[k + 1])
         IN  merge_inner(sources, [readers EXCEPT ![k + 1] = rd.reader],
                         refill(pq \ {next}, k, rd), top,
                         Append(out, MgLine("-", next.m_bs)))
    ELSE LET k == top.m_k
             rd == reader_read(sources[k + 1], readers[k + 1])
         IN  [readers |-> [readers EXCEPT ![k + 1] = rd.reader],
              pq |-> refill(pq, k, rd), out |-> out]

RECURSIVE merge_outer(_, _, _, _)
merge_outer(sources, readers, pq, out) ==
    IF pq = {} THEN out
    ELSE LET top == CHOOSE t \in pq_top(pq) : TRUE
             s == merge_inner(sources, readers, pq \ {top}, top,
                              Append(out, MgLine("+", top.m_bs)))
         IN  merge_outer(sources, s.readers, s.pq, s.out)

merge_index_out(sources) ==
    IF merge_open(sources).ret # 0 THEN << >>
    ELSE LET readers == [k \in 1..Len(sources) |->
                            [bytes_per_item |-> sources[k].bytes_per_bucket + 8,
                             pos |-> 0, eof |-> FALSE]]
             rd == [k \in 1..Len(sources) |-> reader_read(sources[k], readers[k])]
         IN  merge_outer(sources, [k \in 1..Len(sources) |-> rd[k].reader],
                         {[m_bs |-> rd[k].bs, m_k |-> k - 1] :
                             k \in {j \in 1..Len(sources) : rd[j].ok}},
                         << >>)

\* merge() (merge.cc:286-290) after a call of merge_index, whose value it
\* drops: the next band, or return 0, after which main returns 0
\* (merge.cc:351-354).
MgNextBand ==
    /\ mg_pc = "returned"
    /\ mg_rets' = Append(mg_rets, mg_ret)
    /\ IF mg_later # << >>
       THEN /\ mg_sources' = Head(mg_later)
            /\ mg_later' = Tail(mg_later)
            /\ mg_readers' = << >>
            /\ mg_writer' = NoWriter
            /\ mg_pq' = {}
            /\ mg_top' = NoItem
            /\ mg_ret' = -1
            /\ mg_pc' = "open"
            /\ UNCHANGED mg_exit
       ELSE /\ mg_pc' = "exit"
            /\ mg_exit' = 0
            /\ UNCHANGED <<mg_sources, mg_later, mg_readers, mg_writer, mg_pq, mg_top,
                           mg_ret>>
    /\ UNCHANGED mg_out
    /\ UNCHANGED notMg

MgNext == MgOpen \/ MgPrime \/ MgTop \/ MgDup \/ MgRefill \/ MgNextBand

\* ---- doubri-merge over several bands ----

\* The source indices of a band: two indices of one record with the same
\* bucket from two groups, an index with another bytes_per_bucket, and a
\* file that is no index.
MmSourceFiles ==
    { IndexFile("DoubriI4", 0, 1, 2, 1, <<write_item(1, 1, MgBucket(1, 1)).bytes>>),
      IndexFile("DoubriI4", 0, 1, 2, 1, <<write_item(256, 1, MgBucket(1, 1)).bytes>>),
      IndexFile("DoubriI4", 0, 2, 0, 0, << >>),
      IndexFile("DoubriH4", 0, 0, 0, 0, << >>) }

\* The numbers of bands after the first (end - begin - 1).
MmLaterBands == 0..1

MmInit ==
    /\ mg_pc = "open"
    /\ \E K \in MgSourceCounts :
        /\ mg_sources \in [1..K -> MmSourceFiles]
        /\ \E n \in MmLaterBands : mg_later \in [1..n -> [1..K -> MmSourceFiles]]
    /\ mg_readers = << >>
    /\ mg_writer = NoWriter
    /\ mg_pq = {}
    /\ mg_top = NoItem
    /\ mg_out = << >>
    /\ mg_ret = -1
    /\ mg_rets = << >>
    /\ mg_exit = -1


\* The merger at rest, in the specifications of the other programs.
MgIdle ==
    /\ mg_pc = "idle"
    /\ mg_sources = << >>
    /\ mg_readers = << >>
    /\ mg_writer = NoWriter
    /\ mg_pq = {}
    /\ mg_top = NoItem
    /\ mg_out = << >>
    /\ mg_ret = -1
    /\ mg_later = << >>
    /\ mg_rets = << >>
    /\ mg_exit = -1

-----------------------------------------------------------------------------
(* C7, C8: the merger *)

\* The records of source k (1-based), in file order.
MgSourceRecs(k) ==
    LET f == mg_sources[k]
        bpi == f.bytes_per_bucket + 8
    IN  [p \in 1..(Len(f.body) \div bpi) |-> SubSeq(f.body, (p - 1) * bpi + 1, p * bpi)]

MgInputRecs ==
    UNION {{MgSourceRecs(k)[p] : p \in 1..Len(MgSourceRecs(k))} : k \in 1..Len(mg_sources)}

\* Every input index is strictly sorted and holds pairwise distinct buckets.
MgSortedDistinct ==
    \A k \in 1..Len(mg_sources) :
        LET recs == MgSourceRecs(k)
        IN  /\ \A p \in 1..(Len(recs) - 1) : LexLess(recs[p], recs[p + 1])
            /\ \A p, q \in 1..Len(recs) : p # q => RecBucket(recs[p]) # RecBucket(recs[q])

\* The bucket bytes that a printed bucket stands for.
Unhex(text) ==
    LET val(c) == CHOOSE d \in 0..15 : HexDigit[d + 1] = c
    IN  [p \in 1..(Len(text) \div 2) |-> val(text[2 * p - 1]) * 16 + val(text[2 * p])]

\* (g, i) before (h, j).
PairLess(g, i, h, j) == g < h \/ (g = h /\ i < j)

MgPlus == SelectSeq(mg_out, LAMBDA e : e.sign = "+")

\* C7: the K-way merge representative.  When every input index is strictly
\* sorted and holds pairwise distinct bucket values, merge_index prints
\* exactly one '+' line per bucket value present in any input, the line
\* carries the lowest (g, i) among the input records with that bucket, and
\* the '+' lines come out in strictly ascending bucket order.
C7_MergeRepresentative ==
    (mg_pc = "returned" /\ mg_ret = 0 /\ MgSortedDistinct) =>
        /\ \A r \in MgInputRecs :
            LET hits == {p \in 1..Len(MgPlus) : Unhex(MgPlus[p].bucket) = RecBucket(r)}
            IN  /\ Cardinality(hits) = 1
                /\ \A p \in hits :
                    ~PairLess(RecGroup(r), RecIndex(r), MgPlus[p].group, MgPlus[p].index)
        /\ \A p \in 1..Len(MgPlus) :
            \E r \in MgInputRecs :
                /\ RecBucket(r) = Unhex(MgPlus[p].bucket)
                /\ RecGroup(r) = MgPlus[p].group
                /\ RecIndex(r) = MgPlus[p].index
        /\ \A p \in 1..(Len(MgPlus) - 1) :
            LexLess(Unhex(MgPlus[p].bucket), Unhex(MgPlus[p + 1].bucket))

\* A merge of two sorted sources has ended with two buckets printed and a
\* record of the second source preferred to one of the first.
C7_Witness ==
    /\ mg_pc = "returned"
    /\ mg_ret = 0
    /\ MgSortedDistinct
    /\ Len(mg_sources) = 2
    /\ Len(MgPlus) = 2
    /\ \E p \in 1..Len(mg_out) : mg_out[p].sign = "-"
    /\ \E r \in {MgSourceRecs(1)[p] : p \in 1..Len(MgSourceRecs(1))} :
        \E p \in 1..Len(MgPlus) :
            /\ Unhex(MgPlus[p].bucket) = RecBucket(r)
            /\ PairLess(MgPlus[p].group, MgPlus[p].index, RecGroup(r), RecIndex(r))

\* C8: the merged index file.  After merge_index has completed, the body of
\* the output index is exactly the records printed with '+', in that order,
\* its num_active_items is their number, and its num_total_items is the sum
\* of the num_total_items of the sources.
C8_MergedIndexContent ==
    (mg_pc = "returned" /\ mg_ret = 0) =>
        /\ mg_writer.body =
            [p \in 1..Len(MgPlus) |->
                write_item(MgPlus[p].group, MgPlus[p].index, Unhex(MgPlus[p].bucket)).bytes]
        /\ mg_writer.num_active_items = Len(MgPlus)
        /\ mg_writer.num_total_items =
            SumTo([k \in 1..Len(mg_sources) |-> mg_sources[k].num_total_items],
                  Len(mg_sources))

-----------------------------------------------------------------------------
(* doubri-apply: bounds and inputs *)

\* The largest number of newline-terminated lines of STDIN.
MaxLines == 3

\* TARGET, the positional argument.
ApTarget == [dir |-> "", base |-> "t"]

\* The lines of a source file: the "#G <group>" line, which has no TAB, and
\* "<num_items>\t<path>" lines.
ManifestLines ==
    {group_line(g) : g \in Groups}
    \cup {[tab |-> TRUE, num_items |-> c, source |-> ApTarget] : c \in {0, 1, 2}}
    \cup {[tab |-> TRUE, num_items |-> 1, source |-> [dir |-> "", base |-> "o"]],
          [tab |-> TRUE, num_items |-> 1, source |-> [dir |-> "d", base |-> "t"]]}

\* The numbers of newline-terminated lines of a source file.
ManifestLens == 0..2

\* The sizes of a flag file.
FlagLens == 0..3

\* A text stream: its newline-terminated lines, and whether characters
\* follow the last newline.
TextStream(lines, tail) == [lines |-> lines, tail |-> tail]

\* The text of line p of STDIN; the tail, when there is one, is line
\* Len(lines) + 1.
StdinLine(p) == p

-----------------------------------------------------------------------------
(* doubri-apply: main (apply.cc:33-218) *)

\* std::getline followed by the test of eof() (apply.cc:104-107, 181-184):
\* the next newline-terminated line; at the tail or at the end, eof.
getline(stream, pos) ==
    IF pos < Len(stream.lines)
    THEN [eof |-> FALSE, line |-> stream.lines[pos + 1]]
    ELSE [eof |-> TRUE, line |-> 0]

\* apply.cc:123-128: the path without its directory name.
strip_dir(source) == [source EXCEPT !.dir = ""]

\* The flags of the target read from offset 0 of the flag file.
flag_slice_from_zero(file, begin, size) ==
    IF size > Len(file) THEN [ok |-> FALSE, flags |-> << >>]
    ELSE [ok |-> TRUE, flags |-> SubSeq(file, 1, size)]

\* apply.cc:164-173: seek to begin, read size bytes.
flag_slice(file, begin, size) ==
    IF begin + size > Len(file) THEN [ok |-> FALSE, flags |-> << >>]
    ELSE [ok |-> TRUE, flags |-> SubSeq(file, begin + 1, begin + size)]

ApInit ==
    /\ ap_pc = "scan"
    /\ \E m \in ManifestLens, tail \in BOOLEAN :
        \E lines \in [1..m -> ManifestLines] : ap_manifest = TextStream(lines, tail)
    /\ \E m \in FlagLens : ap_flagfile \in [1..m -> {" ", "D"}]
    /\ ap_strip \in BOOLEAN
    /\ \E m \in 0..MaxLines, tail \in BOOLEAN :
        ap_stdin = TextStream([p \in 1..m |-> StdinLine(p)], tail)
    /\ ap_mpos = 0
    /\ ap_n = 0
    /\ ap_found = FALSE
    /\ ap_begin = 0
    /\ ap_size = 0
    /\ ap_flags = << >>
    /\ ap_i = 0
    /\ ap_spos = 0
    /\ ap_stdout = << >>
    /\ ap_ret = -1

\* apply.cc:101-144: one turn of the loop over the source file.
ApScan ==
    /\ ap_pc = "scan"
    /\ LET g == getline(ap_manifest, ap_mpos)
           source == IF ap_strip THEN strip_dir(g.line.source) ELSE g.line.source
       IN  IF g.eof
           THEN /\ ap_pc' = "flags"
                /\ UNCHANGED <<ap_mpos, ap_n, ap_found, ap_begin, ap_size, ap_ret>>
           ELSE IF ~g.line.tab
           THEN /\ ap_ret' = 1
                /\ ap_pc' = "exit"
                /\ ap_mpos' = ap_mpos + 1
                /\ UNCHANGED <<ap_n, ap_found, ap_begin, ap_size>>
           ELSE IF source = ApTarget /\ ap_found
           THEN /\ ap_ret' = 1
                /\ ap_pc' = "exit"
                /\ ap_mpos' = ap_mpos + 1
                /\ UNCHANGED <<ap_n, ap_found, ap_begin, ap_size>>
           ELSE /\ ap_mpos' = ap_mpos + 1
                /\ ap_n' = ap_n + g.line.num_items
                /\ IF source = ApTarget
                   THEN /\ ap_begin' = ap_n
                        /\ ap_size' = g.line.num_items
                        /\ ap_found' = TRUE
                   ELSE UNCHANGED <<ap_begin, ap_size, ap_found>>
                /\ UNCHANGED <<ap_pc, ap_ret>>
    /\ UNCHANGED <<ap_manifest, ap_flagfile, ap_strip, ap_stdin, ap_flags, ap_i,
                   ap_spos, ap_stdout>>
    /\ UNCHANGED notAp

\* apply.cc:146-173: the checks after the scan and the read of the flags of
\* the target.  flags.front() of an empty vector (size = 0) is undefined: the
\* program goes on or is aborted (status 134).
ApFlags ==
    /\ ap_pc = "flags"
    /\ LET fs == flag_slice(ap_flagfile, ap_begin, ap_size)
       IN  IF Len(ap_flagfile) # ap_n \/ ~ap_found \/ ~fs.ok
           THEN /\ ap_ret' = 1
                /\ ap_pc' = "exit"
                /\ UNCHANGED ap_flags
           ELSE \/ /\ ap_flags' = fs.flags
                   /\ ap_pc' = "lines"
                   /\ UNCHANGED ap_ret
                \/ /\ ap_size = 0
                   /\ ap_ret' = 134
                   /\ ap_pc' = "exit"
                   /\ UNCHANGED ap_flags
    /\ UNCHANGED <<ap_manifest, ap_flagfile, ap_strip, ap_stdin, ap_mpos, ap_n,
                   ap_found, ap_begin, ap_size, ap_i, ap_spos, ap_stdout>>
    /\ UNCHANGED notAp

\* apply.cc:178-196: one turn of the loop over STDIN.
ApGetline ==
    /\ ap_pc = "lines"
    /\ LET g == getline(ap_stdin, ap_spos)
       IN  IF g.eof
           THEN /\ ap_pc' = "finish"
                /\ UNCHANGED <<ap_spos, ap_i, ap_stdout, ap_ret>>
           ELSE IF ap_size <= ap_i
           THEN /\ ap_ret' = 1
                /\ ap_pc' = "exit"
                /\ ap_spos' = ap_spos + 1
                /\ UNCHANGED <<ap_i, ap_stdout>>
           ELSE /\ ap_spos' = ap_spos + 1
                /\ ap_stdout' = IF ap_flags[ap_i + 1] = " "
                                THEN Append(ap_stdout, g.line) ELSE ap_stdout
                /\ ap_i' = ap_i + 1
                /\ UNCHANGED <<ap_pc, ap_ret>>
    /\ UNCHANGED <<ap_manifest, ap_flagfile, ap_strip, ap_stdin, ap_mpos, ap_n,
                   ap_found, ap_begin, ap_size, ap_flags>>
    /\ UNCHANGED notAp

\* apply.cc:212-217: the test after the loop and the exit status.
ApFinish ==
    /\ ap_pc = "finish"
    /\ ap_ret' = IF ap_i < ap_size THEN 1 ELSE 0
    /\ ap_pc' = "exit"
    /\ UNCHANGED <<ap_manifest, ap_flagfile, ap_strip, ap_stdin, ap_mpos, ap_n,
                   ap_found, ap_begin, ap_size, ap_flags, ap_i, ap_spos, ap_stdout>>
    /\ UNCHANGED notAp

ApNext == ApScan \/ ApFlags \/ ApGetline \/ ApFinish

\* The applicator at rest, in the specifications of the other programs.
ApIdle ==
    /\ ap_pc = "idle"
    /\ ap_manifest = TextStream(<< >>, FALSE)
    /\ ap_flagfile = << >>
    /\ ap_strip = FALSE
    /\ ap_stdin = TextStream(<< >>, FALSE)
    /\ ap_mpos = 0
    /\ ap_n = 0
    /\ ap_found = FALSE
    /\ ap_begin = 0
    /\ ap_size = 0
    /\ ap_flags = << >>
    /\ ap_i = 0
    /\ ap_spos = 0
    /\ ap_stdout = << >>
    /\ ap_ret = -1

-----------------------------------------------------------------------------
(* C9, C10: the applicator *)

\* The path a line of the source file is compared to TARGET with.
ApSourceOf(line) == IF ap_strip THEN strip_dir(line.source) ELSE line.source

\* The lines of the source file that name the target.
ApTargetLines ==
    {p \in 1..Len(ap_manifest.lines) : ApSourceOf(ap_manifest.lines[p]) = ApTarget}

\* The sum of the item counts of the first k lines of the source file.
ApCountSum(k) ==
    LET S[n \in 0..k] == IF n = 0 THEN 0 ELSE S[n - 1] + ap_manifest.lines[n].num_items
    IN  S[k]

\* The source file, the flag file and STDIN are consistent: every line of
\* the source file is a "<num_items>\t<path>" line ended by a newline, one
\* line names the target, the item counts add up to the size of the flag
\* file, and STDIN is as many newline-terminated lines as the target has
\* items.
ApConsistent ==
    /\ ~ap_manifest.tail
    /\ \A p \in 1..Len(ap_manifest.lines) : ap_manifest.lines[p].tab
    /\ Cardinality(ApTargetLines) = 1
    /\ ApCountSum(Len(ap_manifest.lines)) = Len(ap_flagfile)
    /\ \A t \in ApTargetLines : Len(ap_stdin.lines) = ap_manifest.lines[t].num_items
    /\ ~ap_stdin.tail

\* The lines of STDIN at the positions p < size whose flag at offset + p of
\* the flag file is ' ', in order.
ApExpected(offset, size) ==
    LET F[p \in 0..size] ==
            IF p = 0 THEN << >>
            ELSE IF ap_flagfile[offset + p] = " "
                 THEN Append(F[p - 1], ap_stdin.lines[p])
                 ELSE F[p - 1]
    IN  F[size]

ApStdinLineCount == Len(ap_stdin.lines) + (IF ap_stdin.tail THEN 1 ELSE 0)

\* C10: the alignment check.  doubri-apply exits with status 0 only when the
\* number of lines of STDIN equals the size of the target: with fewer lines
\* or with more lines the status is not 0.
C10_AlignmentCheck ==
    (ap_pc = "exit" /\ ap_ret = 0) => ApStdinLineCount = ap_size

-----------------------------------------------------------------------------
(* C11: the source list of the deduper, read by the applicator *)

\* The hash files a source list in the deduper's format lists: the lines
\* after the first.
ApListedFiles ==
    [k \in 1..(Len(ap_manifest.lines) - 1) |->
        [num_items |-> ap_manifest.lines[k + 1].num_items,
         filename |-> ap_manifest.lines[k + 1].source]]

\* The source file is one the deduper writes, and lists the target once.
ApDeduperManifest ==
    /\ ~ap_manifest.tail
    /\ Len(ap_manifest.lines) >= 1
    /\ \E g \in Groups : ap_manifest.lines = source_list(g, ApListedFiles)
    /\ Cardinality(ApTargetLines) = 1

\* C11: manifest compatibility.  doubri-apply accepts a source file in the
\* format the deduper writes (line 1 "#G <group>", then one
\* "<num_items>\t<shard_path>" line per shard): it finds the target listed in
\* it, and its offset is the start_index of the target's shard, the sum of
\* the item counts of the shards before it.
C11_ManifestCompatible ==
    (ap_pc = "exit" /\ ApDeduperManifest) =>
        /\ ap_found
        /\ \A t \in ApTargetLines : ap_begin = SumTo([k \in 1..Len(ApListedFiles) |->
                                                ApListedFiles[k].num_items], t - 2)

-----------------------------------------------------------------------------
(* doubri-apply-whole: main (apply-whole.cc:32-121) *)

AwInit ==
    /\ aw_pc = "flags"
    /\ \E m \in FlagLens : aw_flagfile \in [1..m -> {" ", "D"}]
    /\ \E m \in 0..MaxLines, tail \in BOOLEAN :
        aw_stdin = TextStream([p \in 1..m |-> StdinLine(p)], tail)
    /\ aw_flags = << >>
    /\ aw_i = 0
    /\ aw_spos = 0
    /\ aw_stdout = << >>
    /\ aw_ret = -1

\* apply-whole.cc:71-91: the size of the flag file is num_total_items, and
\* every byte of it is read.  flags.front() of an empty vector is undefined:
\* the program goes on or is aborted (status 134).
AwReadFlags ==
    /\ aw_pc = "flags"
    /\ \/ /\ aw_flags' = aw_flagfile
          /\ aw_pc' = "lines"
          /\ UNCHANGED aw_ret
       \/ /\ Len(aw_flagfile) = 0
          /\ aw_ret' = 134
          /\ aw_pc' = "exit"
          /\ UNCHANGED aw_flags
    /\ UNCHANGED <<aw_flagfile, aw_stdin, aw_i, aw_spos, aw_stdout>>
    /\ UNCHANGED notAw

\* apply-whole.cc:96-110: one turn of the loop over the flags.
AwGetline ==
    /\ aw_pc = "lines"
    /\ aw_i < Len(aw_flags)
    /\ LET g == getline(aw_stdin, aw_spos)
       IN  IF g.eof
           THEN /\ aw_ret' = 1
                /\ aw_pc' = "exit"
                /\ UNCHANGED <<aw_spos, aw_i, aw_stdout>>
           ELSE /\ aw_spos' = aw_spos + 1
                /\ aw_stdout' = IF aw_flags[aw_i + 1] = " "
                                THEN Append(aw_stdout, g.line) ELSE aw_stdout
                /\ aw_i' = aw_i + 1
                /\ UNCHANGED <<aw_pc, aw_ret>>
    /\ UNCHANGED <<aw_flagfile, aw_stdin, aw_flags>>
    /\ UNCHANGED notAw

\* apply-whole.cc:112-120: one more getline after the loop; an error unless
\* it sets eof.
AwTrailing ==
    /\ aw_pc = "lines"
    /\ ~(aw_i < Len(aw_flags))
    /\ LET g == getline(aw_stdin, aw_spos)
       IN  /\ aw_ret' = IF ~g.eof THEN 1 ELSE 0
           /\ aw_spos' = IF ~g.eof THEN aw_spos + 1 ELSE aw_spos
    /\ aw_pc' = "exit"
    /\ UNCHANGED <<aw_flagfile, aw_stdin, aw_flags, aw_i, aw_stdout>>
    /\ UNCHANGED notAw

AwNext == AwReadFlags \/ AwGetline \/ AwTrailing

\* doubri-apply-whole at rest, in the specifications of the other programs.
AwIdle ==
    /\ aw_pc = "idle"
    /\ aw_flagfile = << >>
    /\ aw_stdin = TextStream(<< >>, FALSE)
    /\ aw_flags = << >>
    /\ aw_i = 0
    /\ aw_spos = 0
    /\ aw_stdout = << >>
    /\ aw_ret = -1

-----------------------------------------------------------------------------
(* C12: apply-whole *)

\* The number of lines of STDIN, a last line without a newline included.
AwStdinLineCount == Len(aw_stdin.lines) + (IF aw_stdin.tail THEN 1 ELSE 0)

\* The lines of STDIN at the positions p < n whose flag byte p is ' '.
AwExpected ==
    LET F[p \in 0..Len(aw_flagfile)] ==
            IF p = 0 THEN << >>
            ELSE IF aw_flagfile[p] = " " THEN Append(F[p - 1], StdinLine(p)) ELSE F[p - 1]
    IN  F[Len(aw_flagfile)]

\* C12: apply-whole alignment.  With a flag file of n bytes, when STDIN has
\* at least n lines doubri-apply-whole has written, when it exits, exactly
\* the lines at the positions p in [0, n) whose flag byte p is ' '; and its
\* exit status is not 0 when STDIN has fewer than n lines or anything after
\* the n-th line, a last line without a newline included.
C12_ApplyWholeAlignment ==
    aw_pc = "exit" =>
        /\ AwStdinLineCount >= Len(aw_flagfile) => aw_stdout = AwExpected
        /\ AwStdinLineCount # Len(aw_flagfile) => aw_ret # 0

-----------------------------------------------------------------------------
(* C13 *)

\* The sum of the num_items header fields of the shards given to the deduper.
DdHeaderItems ==
    LET S[k \in 0..Len(dd_files)] ==
            IF k = 0 THEN 0 ELSE S[k - 1] + HdrField(dd_files[k], 0)
    IN  S[Len(dd_files)]

\* The sum of the item counts of the "<num_items>\t<filename>" lines of the
\* source-list file.
DdManifestItems ==
    LET ls == dd_src.content
        S[k \in 0..Len(ls)] ==
            IF k = 0 THEN 0
            ELSE S[k - 1] + (IF ls[k].tab THEN ls[k].num_items ELSE 0)
    IN  S[Len(ls)]

\* C13: after a successful run of the deduper over compatible shards, empty
\* ones included, the length of the flag vector, the sum of the per-shard
\* num_items written to the source list and the sum of the num_items header
\* fields of the shards are all equal.
C13_SizeAgreement ==
    (dd_pc = "exit" /\ dd_ret = 0) =>
        /\ dd_src.exists
        /\ Len(lsh_flags) = DdManifestItems
        /\ DdManifestItems = DdHeaderItems

\* A run over two shards has ended with status 0: one shard is empty and the
\* other holds two items or more.
C13_Witness ==
    /\ dd_pc = "exit"
    /\ dd_ret = 0
    /\ Len(dd_files) = 2
    /\ \E k \in 1..2 : HdrField(dd_files[k], 0) = 0
    /\ DdHeaderItems >= 2

-----------------------------------------------------------------------------
(* C14 *)

\* Shard k differs from the first shard in bytes_per_hash, num_hash_values,
\* begin or end.
DdDiffersFromFirst(k) ==
    \E n \in 1..4 : HdrField(dd_files[k], n) # HdrField(dd_files[1], n)

\* Every file of the list has the magic of a MinHash file.
DdAllMagic == \A k \in 1..Len(dd_files) : SubSeq(dd_files[k], 1, 8) = MagicH4

\* No source-list, index or flag file has been created.
DdNothingWritten == dd_src = NoFile /\ dd_idx = << >> /\ dd_dup = NoFile

\* C14: if a shard of the list differs from the first shard in
\* bytes_per_hash, num_hash_values, begin or end, the deduper aborts during
\* initialize() and creates no source-list, index or flag file.
C14_MismatchFatalBeforeWrite ==
    (/\ ~group_out_of_range(dd_group)
     /\ DdAllMagic
     /\ \E k \in 2..Len(dd_files) : DdDiffersFromFirst(k))
        => /\ dd_pc \in {"initialize", "failed"}
           /\ DdNothingWritten

-----------------------------------------------------------------------------
(* C15 *)

\* The magic of the file is not "DoubriH4" or its sector_size is not 512.
FormatError(f) ==
    \/ SubSeq(f, 1, 8) # MagicH4
    \/ HdrField(f, 5) # minhash_sector_size

\* C15: a file whose magic is not "DoubriH4" or whose sector_size is not 512
\* is rejected by MinHashReader::open, and a deduper given such a file fails
\* in initialize(), before any bucket is loaded.
C15_FormatErrorFatal ==
    \A k \in 1..Len(dd_files) :
        FormatError(dd_files[k]) =>
            /\ ~reader_open(dd_files[k]).ok
            /\ ~group_out_of_range(dd_group) => dd_pc \in {"initialize", "failed"}

-----------------------------------------------------------------------------
(* doubri-minhash: main (minhash.cc:105-222) *)

\* A uint32_t is kept as its two 16-bit halves <<high, low>>.
Max32 == <<65535, 65535>>

\* a < b on uint32_t.
Less32(a, b) == a[1] < b[1] \/ (a[1] = b[1] /\ a[2] < b[2])

\* The values MurmurHash3_x86_32 returns in the model.
SkHashVals == {<<0, 7>>, <<1, 0>>, Max32}

\* The values of --ngram.
SkNgram == {1, 2}

\* The (num_hash_values, begin, end) of the sketcher.
SkParams ==
    { [H |-> 1, begin |-> 0, end |-> 2],
      [H |-> 2, begin |-> 1, end |-> 2] }

\* The texts of the input lines, as sequences of characters.
SkTexts == { << >>, <<"a">>, <<"_", "a">>, <<"_", "_">> }

\* An input line: a JSON object with or without the text field.
SkLines == {[has |-> FALSE, text |-> << >>]} \cup {[has |-> TRUE, text |-> t] : t \in SkTexts}

\* The numbers of lines of STDIN.
SkLineCounts == 0..2

\* The n-grams MurmurHash3_x86_32 is called with, and the seeds.
SkGrams(n) == IF n = 1 THEN {<<"_">>, <<"a">>} ELSE {<<"_", "a">>, <<"_", "_">>}

SkSeeds(prm) == (prm.begin * prm.H)..(prm.end * prm.H - 1)

\* const std::string empty(n, '_') (minhash.cc:173)
empty_text(n) == [k \in 1..n |-> "_"]

\* The text of a line that replaces a short text only when the field is
\* absent.
line_text_absent_only(d, n) ==
    IF d.has THEN d.text ELSE empty_text(n)

\* The text of a line (minhash.cc:191-200): the field, or empty when the
\* field is absent or the text has fewer than n characters.
line_text(d, n) ==
    IF d.has
    THEN IF Len(d.text) < n THEN empty_text(n) ELSE d.text
    ELSE empty_text(n)

\* ngram() (minhash.cc:54-77): nothing for an empty string, else the
\* cs.size() - n substrings of n characters.
ngram(str, n) ==
    IF str = << >> THEN << >>
    ELSE [i \in 1..(Len(str) + 1 - n) |-> SubSeq(str, i, i + n - 1)]

\* minhash() (minhash.cc:89-103): for each of num seeds from begin, the least
\* hash value of the strings, 0xFFFFFFFF when there is none.
minhash(strs, begin, num, hash) ==
    [i \in 1..num |->
        LET seed == begin + i - 1
            M[k \in 0..Len(strs)] ==
                IF k = 0 THEN Max32
                ELSE LET hv == hash[<<strs[k], seed>>]
                     IN  IF Less32(hv, M[k - 1]) THEN hv ELSE M[k - 1]
        IN  M[Len(strs)]]

\* The buffer of one line (minhash.cc:203-211): band by band.
sketch_row(d, n, prm, hash) ==
    LET features == ngram(line_text(d, n), n)
        R[j \in 0..(prm.end - prm.begin)] ==
            IF j = 0 THEN << >>
            ELSE R[j - 1] \o minhash(features, (prm.begin + j - 1) * prm.H, prm.H, hash)
    IN  R[prm.end - prm.begin]

SkInit ==
    /\ sk_pc = "lines"
    /\ sk_n \in SkNgram
    /\ sk_prm \in SkParams
    /\ sk_hash \in [SkGrams(sk_n) \X SkSeeds(sk_prm) -> SkHashVals]
    /\ \E c \in SkLineCounts : sk_stdin \in [1..c -> SkLines]
    /\ sk_pos = 0
    /\ sk_rows = << >>

\* One turn of the line loop (minhash.cc:181-214).
SkLine ==
    /\ sk_pc = "lines"
    /\ sk_pos < Len(sk_stdin)
    /\ sk_rows' = Append(sk_rows, sketch_row(sk_stdin[sk_pos + 1], sk_n, sk_prm, sk_hash))
    /\ sk_pos' = sk_pos + 1
    /\ UNCHANGED <<sk_pc, sk_n, sk_prm, sk_hash, sk_stdin>>
    /\ UNCHANGED notSk

\* The end of STDIN (minhash.cc:185-187), then mw.close().
SkClose ==
    /\ sk_pc = "lines"
    /\ sk_pos = Len(sk_stdin)
    /\ sk_pc' = "closed"
    /\ UNCHANGED <<sk_n, sk_prm, sk_hash, sk_stdin, sk_pos, sk_rows>>
    /\ UNCHANGED notSk

SkNext == SkLine \/ SkClose

\* The sketcher at rest, in the specifications of the other programs.
SkIdle ==
    /\ sk_pc = "idle"
    /\ sk_n = 0
    /\ sk_prm = [H |-> 0, begin |-> 0, end |-> 0]
    /\ sk_hash = << >>
    /\ sk_stdin = << >>
    /\ sk_pos = 0
    /\ sk_rows = << >>

-----------------------------------------------------------------------------
(* C16 *)

\* The text field of line p is absent or shorter than n characters.
SkNoText(p) == ~sk_stdin[p].has \/ Len(sk_stdin[p].text) < sk_n

\* The seed of position f (from 1) of a row: band * H + h.
SkSeedAt(f) == sk_prm.begin * sk_prm.H + f - 1

-----------------------------------------------------------------------------
(* doubri-self: main and MinHashLSH (dedup_self.cc) *)

\* The (num_hash_values, begin, end) of the shards given to doubri-self.
DsParams == { [H |-> 1, begin |-> 0, end |-> 2] }

\* The first hash values of the buckets of the shards.
DsHashVals == {1, 2}

\* The ways to give K shards their numbers of items, two in all at most.
DsSizes(K) == { sz \in [1..K -> 0..2] : SumTo(sz, K) <= 2 }

\* The flag file found at start: none, one that an earlier run saved for as
\* many items (flags ' ' and 'D'), or one of another size.
DsFlagFiles(n) ==
    {NoFile}
    \cup {[exists |-> TRUE, content |-> c] : c \in [1..n -> {" ", "D"}]}
    \cup {[exists |-> TRUE, content |-> [i \in 1..(n + 1) |-> " "]]}

DsInit ==
    \E prm \in DsParams, K \in ShardCounts :
      \E sz \in DsSizes(K) :
        \E cells \in [1..(SumTo(sz, K) * (prm.end - prm.begin)) -> DsHashVals] :
            /\ ds_files = [k \in 1..K |->
                    ShardFile(sz[k], prm,
                        [c \in 1..(sz[k] * (prm.end - prm.begin)) |->
                            BucketOf(cells[SumTo(sz, k - 1) * (prm.end - prm.begin) + c],
                                     prm.H)])]
            /\ ds_flagfile \in DsFlagFiles(SumTo(sz, K))
            /\ ds_ignore_flag \in BOOLEAN
            /\ ds_save_index \in BOOLEAN
            /\ ds_pc = "initialize"
            /\ ds_lsh = lsh_initialize(<< >>)
            /\ ds_buffer = << >>
            /\ ds_items = << >>
            /\ ds_flags = << >>
            /\ ds_bn = 0
            /\ ds_idx = << >>
            /\ ds_ret = -1

\* main up to initialize() (dedup_self.cc:595-611, 202-299).
DsInitialize ==
    /\ ds_pc = "initialize"
    /\ LET r == lsh_initialize(ds_files)
           bpb == r.bytes_per_hash * r.num_hash_values
       IN  /\ ds_lsh' = r
           /\ IF r.ok
              THEN /\ ds_buffer' = [i \in 1..r.num_items |-> [b \in 1..bpb |-> 0]]
                   /\ ds_items' = [i \in 1..r.num_items |-> 0]
                   /\ ds_flags' = [i \in 1..r.num_items |-> " "]
                   /\ ds_bn' = r.begin
                   /\ ds_pc' = "flag"
                   /\ ds_ret' = ds_ret
              ELSE /\ ds_pc' = "failed"
                   /\ ds_ret' = 134
                   /\ UNCHANGED <<ds_buffer, ds_items, ds_flags, ds_bn>>
    /\ UNCHANGED <<ds_files, ds_ignore_flag, ds_save_index, ds_flagfile, ds_idx>>
    /\ UNCHANGED notDs

\* main, the flag file (dedup_self.cc:613-625), and load_flag() (300-329):
\* the file is read into m_flags when its size is m_num_items.  With no
\* item, &m_flags.front() is taken of an empty vector: the read of 0 bytes
\* goes on, or the process aborts.
DsLoadFlag ==
    /\ ds_pc = "flag"
    /\ IF ds_ignore_flag \/ ~ds_flagfile.exists
       THEN /\ ds_pc' = AfterBand(ds_lsh.begin, ds_lsh.end)
            /\ UNCHANGED <<ds_flags, ds_ret>>
       ELSE IF Len(ds_flagfile.content) # ds_lsh.num_items
       THEN /\ ds_pc' = "failed"
            /\ ds_ret' = 134
            /\ UNCHANGED ds_flags
       ELSE IF ds_lsh.num_items = 0
       THEN \/ /\ ds_pc' = AfterBand(ds_lsh.begin, ds_lsh.end)
               /\ UNCHANGED <<ds_flags, ds_ret>>
            \/ /\ ds_pc' = "failed"
               /\ ds_ret' = 134
               /\ UNCHANGED ds_flags
       ELSE /\ ds_flags' = ds_flagfile.content
            /\ ds_pc' = AfterBand(ds_lsh.begin, ds_lsh.end)
            /\ UNCHANGED ds_ret
    /\ UNCHANGED <<ds_files, ds_ignore_flag, ds_save_index, ds_flagfile, ds_lsh,
                   ds_buffer, ds_items, ds_bn, ds_idx>>
    /\ UNCHANGED notDs

\* deduplicate_bucket(), the reads and the sort (dedup_self.cc:352-405).
DsLoadSort ==
    /\ ds_pc = "load"
    /\ LET bytes_per_bucket == ds_lsh.bytes_per_hash * ds_lsh.num_hash_values
           shard(i) == CHOOSE k \in 1..Len(ds_lsh.hfs) :
                            /\ ds_lsh.hfs[k].start_index <= i
                            /\ i < ds_lsh.hfs[k].start_index + ds_lsh.hfs[k].num_items
           buf == [n \in 1..ds_lsh.num_items |->
                      LET k == shard(n - 1)
                      IN  load_bucket(ds_files[k], bytes_per_bucket, ds_lsh.begin,
                                      ds_lsh.end, ds_bn,
                                      n - 1 - ds_lsh.hfs[k].start_index).bytes]
       IN  /\ ds_buffer' = buf
           /\ ds_items' = parallel_sort([n \in 1..ds_lsh.num_items |-> n - 1], buf)
    /\ ds_pc' = "sweep"
    /\ UNCHANGED <<ds_files, ds_ignore_flag, ds_save_index, ds_flagfile, ds_lsh,
                   ds_flags, ds_bn, ds_idx, ds_ret>>
    /\ UNCHANGED notDs

\* deduplicate_bucket(), the sweep (dedup_self.cc:415-428).
DsSweep ==
    /\ ds_pc = "sweep"
    /\ ds_flags' = find_duplicates(ds_items, ds_buffer, ds_flags)
    /\ ds_pc' = IF ds_save_index THEN "index" ELSE "promote"
    /\ UNCHANGED <<ds_files, ds_ignore_flag, ds_save_index, ds_flagfile, ds_lsh,
                   ds_buffer, ds_items, ds_bn, ds_idx, ds_ret>>
    /\ UNCHANGED notDs

\* The index of doubri-self (dedup_self.cc:446-452): for the items in sorted
\* order whose flag is not 'd', the uint64_t i as it is in memory, then the
\* bucket.
self_index_records(items, buf, flags) ==
    LET F[p \in 0..Len(items)] ==
            IF p = 0 THEN << >>
            ELSE IF flags[items[p] + 1] # "d"
                 THEN Append(F[p - 1], Mem64(items[p]) \o ItemPtr(buf, items[p]))
                 ELSE F[p - 1]
    IN  F[Len(items)]

\* deduplicate_bucket(), the index (dedup_self.cc:434-453).
DsSaveIndex ==
    /\ ds_pc = "index"
    /\ ds_idx' = (ds_bn :> self_index_records(ds_items, ds_buffer, ds_flags)) @@ ds_idx
    /\ ds_pc' = "promote"
    /\ UNCHANGED <<ds_files, ds_ignore_flag, ds_save_index, ds_flagfile, ds_lsh,
                   ds_buffer, ds_items, ds_flags, ds_bn, ds_ret>>
    /\ UNCHANGED notDs

\* deduplicate_bucket(), the promotion (dedup_self.cc:455-458), and the next
\* turn of the loop of run().
DsPromote ==
    /\ ds_pc = "promote"
    /\ ds_flags' = promote(ds_flags)
    /\ ds_bn' = ds_bn + 1
    /\ ds_pc' = AfterBand(ds_bn + 1, ds_lsh.end)
    /\ UNCHANGED <<ds_files, ds_ignore_flag, ds_save_index, ds_flagfile, ds_lsh,
                   ds_buffer, ds_items, ds_idx, ds_ret>>
    /\ UNCHANGED notDs

\* main after run() (dedup_self.cc:630-633) and save_flag() (331-350): the
\* flags are written to the file as they are.  With no item,
\* &m_flags.front() is taken of an empty vector: the write of 0 bytes goes
\* on, or the process aborts with the file opened (and so emptied).
DsSaveFlag ==
    /\ ds_pc = "done"
    /\ ds_flagfile' = [exists |-> TRUE, content |-> ds_flags]
    /\ \/ /\ ds_pc' = "exit"
          /\ ds_ret' = 0
       \/ /\ ds_flags = << >>
          /\ ds_pc' = "failed"
          /\ ds_ret' = 134
    /\ UNCHANGED <<ds_files, ds_ignore_flag, ds_save_index, ds_lsh, ds_buffer,
                   ds_items, ds_flags, ds_bn, ds_idx>>
    /\ UNCHANGED notDs

DsNext ==
    \/ DsInitialize
    \/ DsLoadFlag
    \/ DsLoadSort
    \/ DsSweep
    \/ DsSaveIndex
    \/ DsPromote
    \/ DsSaveFlag

\* doubri-self at rest, in the specifications of the other programs.
DsIdle ==
    /\ ds_pc = "idle"
    /\ ds_files = << >>
    /\ ds_ignore_flag = FALSE
    /\ ds_save_index = FALSE
    /\ ds_flagfile = NoFile
    /\ ds_lsh = lsh_initialize(<< >>)
    /\ ds_buffer = << >>
    /\ ds_items = << >>
    /\ ds_flags = << >>
    /\ ds_bn = 0
    /\ ds_idx = << >>
    /\ ds_ret = -1

-----------------------------------------------------------------------------
(* C17 *)

\* Every flag of the sequence is ' ' or 'D'.
FlagsAtRest(flags) == \A i \in 1..Len(flags) : flags[i] \in {" ", "D"}

-----------------------------------------------------------------------------
(* C18 *)

\* C18: when a call of merge_index fails (a source has a bad magic or a
\* bytes_per_bucket other than the first source's), merge() stops, no later
\* band is processed, and doubri-merge exits with a status other than 0.
C18_MergeErrorPropagates ==
    \A p \in 1..Len(mg_rets) :
        mg_rets[p] # 0 =>
            /\ p = Len(mg_rets)
            /\ mg_pc = "exit"
            /\ mg_exit # 0

-----------------------------------------------------------------------------
(* The range checks at their boundaries *)

\* The word of four 16-bit parts, the most significant first.
Word64(h3, h2, h1, h0) ==
    <<h0 % 256, h0 \div 256, h1 % 256, h1 \div 256,
      h2 % 256, h2 \div 256, h3 % 256, h3 \div 256>>

\* a < b on words.
WordLess(a, b) ==
    \E k \in 1..8 : a[k] < b[k] /\ \A m \in (k + 1)..8 : a[m] = b[m]

\* The values of --group: around 0 and 65535.
RgGroups == {-1, 0, 1, 65535, 65536}

\* The group numbers write_item is called with: 0, 65535, 65536, 2^32.
RgGroupWords ==
    { Word64(0, 0, 0, 0), Word64(0, 0, 0, 65535), Word64(0, 0, 1, 0), Word64(0, 1, 0, 0) }

\* The item indices write_item is called with: 0, 2^32, 2^48 - 1, 2^48,
\* 2^48 + 1, 2^64 - 1.
RgIndexWords ==
    { Word64(0, 0, 0, 0), Word64(0, 1, 0, 0), Word64(0, 65535, 65535, 65535),
      Word64(1, 0, 0, 0), Word64(1, 0, 0, 1), Word64(65535, 65535, 65535, 65535) }

\* The item counts close() is called with: 0, 514, 2^32 - 2, 2^32 - 1, 2^32,
\* 2^32 + 1.
RgCountWords ==
    { Word64(0, 0, 0, 0), Word64(0, 0, 0, 514), Word64(0, 0, 65535, 65534),
      Word64(0, 0, 65535, 65535), Word64(0, 1, 0, 0), Word64(0, 1, 0, 1) }

\* The bucket write_item is given.
RgBucket == <<7>>

\* The result of a call that has not been made.
RgNotDone == [done |-> FALSE]

RgInit ==
    /\ rg_group \in RgGroups
    /\ rg_g \in RgGroupWords
    /\ rg_i \in RgIndexWords
    /\ rg_n \in RgCountWords
    /\ rg_refused = "?"
    /\ rg_item = RgNotDone
    /\ rg_close = RgNotDone

\* main's test of the group number (dedup.cc:555-559).
RgGroupCheck ==
    /\ rg_refused = "?"
    /\ rg_refused' = IF group_out_of_range(rg_group) THEN "yes" ELSE "no"
    /\ UNCHANGED <<rg_group, rg_g, rg_i, rg_n, rg_item, rg_close>>
    /\ UNCHANGED notRg

\* IndexWriter::write_item(g, i, bucket) (common.h:128-153).
RgWriteItem ==
    /\ ~rg_item.done
    /\ rg_item' = [done |-> TRUE, res |-> write_item_w(rg_g, rg_i, RgBucket)]
    /\ UNCHANGED <<rg_group, rg_g, rg_i, rg_n, rg_refused, rg_close>>
    /\ UNCHANGED notRg

\* MinHashWriter::close() (minhash.hpp:152-175) of a writer with m_num_items
\* items whose buffers are flushed: the range test, then the count patched
\* into the header.
RgClose ==
    /\ ~rg_close.done
    /\ rg_close' = IF close_range_error_w(rg_n)
                   THEN [done |-> TRUE, ok |-> FALSE, file |-> WriterHeader(1, 0, 1)]
                   ELSE [done |-> TRUE, ok |-> TRUE,
                         file |-> patch_num_items_w(WriterHeader(1, 0, 1), rg_n)]
    /\ UNCHANGED <<rg_group, rg_g, rg_i, rg_n, rg_refused, rg_item>>
    /\ UNCHANGED notRg

RgNext == RgGroupCheck \/ RgWriteItem \/ RgClose

\* The range checks at rest, in the specifications of the programs.
RgIdle ==
    /\ rg_group = 0
    /\ rg_g = << >>
    /\ rg_i = << >>
    /\ rg_n = << >>
    /\ rg_refused = "-"
    /\ rg_item = RgNotDone
    /\ rg_close = RgNotDone

-----------------------------------------------------------------------------
(* C19 *)

\* The deduper refuses a group number exactly when it is outside [0, 65535].
RgGroupAsStated ==
    rg_refused \in {"yes", "no"} =>
        (rg_refused = "yes" <=> (rg_group < 0 \/ rg_group > 65535))

\* write_item fails, writing nothing, exactly when the group number is above
\* 65535 or the item index is 2^48 or more; when it succeeds it writes the
\* bucket, the group in two bytes and the index in six, most significant
\* byte first.
RgWriteItemAsStated ==
    rg_item.done =>
        LET fits == /\ ~WordLess(Word64(0, 0, 0, 65535), rg_g)
                    /\ WordLess(rg_i, Word64(1, 0, 0, 0))
        IN  /\ rg_item.res.ok <=> fits
            /\ ~fits => rg_item.res.bytes = << >>
            /\ fits => rg_item.res.bytes =
                        RgBucket \o <<rg_g[2], rg_g[1]>> \o [k \in 1..6 |-> rg_i[7 - k]]

\* close() fails exactly when the item count is above 2^32, and otherwise
\* the num_items field of the header holds the count.
RgCloseAsStated ==
    rg_close.done =>
        /\ ~rg_close.ok <=> WordLess(Word64(0, 1, 0, 0), rg_n)
        /\ rg_close.ok => SubSeq(rg_close.file, 9, 12) \o <<0, 0, 0, 0>> = rg_n

\* C19: the deduper refuses to run with a group number outside [0, 65535];
\* writing an index record fails without emitting the record when the group
\* number exceeds 65535 or the item index is >= 2^48 and succeeds for every
\* smaller value; MinHashWriter::close() fails with a range error only when
\* the item count exceeds 2^32 and otherwise patches num_items with the
\* exact count.
C19_RangeBoundaries ==
    /\ RgGroupAsStated
    /\ RgWriteItemAsStated
    /\ RgCloseAsStated

-----------------------------------------------------------------------------
(* C20 *)

\* C20: for a shard written by MinHashWriter, the bucket bytes that
\* deduplicate_bucket loads for local item j and band b are the bytes
\* MinHashReader::read_bucket_array(b) returns at position j, which are the
\* bytes the writer stored for item j and band b.
C20_LayoutAgreement ==
    (mr_pc = "open" /\ mr_band # -1) =>
        LET bytes_per_bucket == mr_hdr.bytes_per_hash * mr_hdr.num_hash_values
        IN  \A j \in 0..(mr_hdr.num_items - 1) :
                load_bucket(m_ofs, bytes_per_bucket, mr_hdr.begin, mr_hdr.end,
                            mr_band, j).bytes
                    = SubSeq(mr_buffer, j * bytes_per_bucket + 1, (j + 1) * bytes_per_bucket)

-----------------------------------------------------------------------------
(* C21 *)

\* C21 as claimed: in every step of a run the flag of an item either stays
\* as it is, goes from ' ' to 'd' or goes from 'd' to 'D'; a flag that is 'D'
\* is never assigned another value.
C21_FlagTransitions ==
    [][ \A p \in 1..Len(lsh_flags) :
            \/ lsh_flags'[p] = lsh_flags[p]
            \/ lsh_flags[p] = " " /\ lsh_flags'[p] = "d"
            \/ lsh_flags[p] = "d" /\ lsh_flags'[p] = "D" ]_vars

\* C21, amended: the sweep of a band is the only step that assigns 'd', and
\* it assigns it to the items that have a lower-index item with their bucket
\* in the band, whether their flag was ' ' or 'D'; the promotion is the only
\* other step that changes a flag, and it turns 'd' into 'D'.  No flag is 'd'
\* when a band starts or the run ends, and an item that was 'D' when a band
\* started is 'D' again when the band ends.
C21_FlagTransitionsWithRedetection ==
    [][ /\ \A p \in 1..Len(lsh_flags) :
            \/ lsh_flags'[p] = lsh_flags[p]
            \/ /\ dd_pc = "sweep"
               /\ lsh_flags[p] \in {" ", "D"}
               /\ lsh_flags'[p] = "d"
               /\ HasEarlierEqual(dd_bn, p - 1)
            \/ /\ dd_pc = "promote"
               /\ lsh_flags[p] = "d"
               /\ lsh_flags'[p] = "D"
        /\ dd_pc' \in {"load", "done"} =>
            \A p \in 1..Len(lsh_flags') :
                /\ lsh_flags'[p] # "d"
                /\ (dd_pc = "promote" /\ dd_flags0[p] = "D") => lsh_flags'[p] = "D" ]_vars

\* The sweep of a later band has marked 'd' an item that was 'D' when the
\* band started, and an item that was ' '.
C21_Witness ==
    /\ dd_pc \in {"index", "promote"}
    /\ \E j \in DdItems : dd_flags0[j + 1] = "D" /\ lsh_flags[j + 1] = "d"
    /\ \E j \in DdItems : dd_flags0[j + 1] = " " /\ lsh_flags[j + 1] = "d"

-----------------------------------------------------------------------------
(* C22 *)

\* The items the sweep of the current band has marked.
DdMarked == {j \in DdItems : lsh_flags[j + 1] = "d"}

\* C22 as claimed: when the index of band b has been written and the
\* promotion is still to come, an item first detected in band b (' ' when the
\* band started, 'd' now) has a record in the index of band b, and an item
\* detected in an earlier band ('D' when the band started) has none.
C22_DetectedItemInOwnIndex ==
    (dd_pc = "promote" /\ dd_save_index) =>
        \A j \in DdItems :
            /\ (dd_flags0[j + 1] = " " /\ lsh_flags[j + 1] = "d") => j \in IdxItems(dd_bn)
            /\ dd_flags0[j + 1] = "D" => j \notin IdxItems(dd_bn)

\* C22, amended: within each band the index is written before the 'd' flags
\* are promoted.  The step that writes the index of band b leaves the flags
\* alone and finds marked 'd' the items that have a lower-index item with
\* their bucket in band b; the index holds a record for every item but those
\* (so an item detected in band b is absent from band b's index, and an item
\* flagged 'D' before band b and not detected again is in it); and no flag
\* goes from 'd' to 'D' in a band whose index is asked for and not written.
C22_IndexBeforePromotion ==
    [][ /\ dd_idx' # dd_idx =>
            /\ lsh_flags' = lsh_flags
            /\ DdMarked = {j \in DdItems : HasEarlierEqual(dd_bn, j)}
            /\ {RecIndex(dd_idx'[dd_bn].body[k]) : k \in 1..Len(dd_idx'[dd_bn].body)}
                    = DdItems \ DdMarked
        /\ (\E p \in 1..Len(lsh_flags) : lsh_flags[p] = "d" /\ lsh_flags'[p] = "D") =>
            (dd_save_index =>
                /\ dd_bn \in DOMAIN dd_idx
                /\ IdxItems(dd_bn) = DdItems \ DdMarked) ]_vars

\* The index of a later band has been written and the promotion is to come:
\* an item first detected in this band is not in the index, and an item
\* flagged 'D' by an earlier band is.
C22_Witness ==
    /\ dd_pc = "promote"
    /\ dd_save_index
    /\ dd_bn > lsh_begin
    /\ \E j \in DdItems :
        dd_flags0[j + 1] = " " /\ lsh_flags[j + 1] = "d" /\ j \notin IdxItems(dd_bn)
    /\ \E j \in DdItems : lsh_flags[j + 1] = "D" /\ j \in IdxItems(dd_bn)

-----------------------------------------------------------------------------
(* C23 *)

\* Every input index is strictly ordered by the bytes of its records
\* (bucket, then group, then item index).
MgStrictlySorted ==
    \A k \in 1..Len(mg_sources) :
        \A p \in 1..(Len(MgSourceRecs(k)) - 1) :
            LexLess(MgSourceRecs(k)[p], MgSourceRecs(k)[p + 1])

\* The positions of std::cout that print record r with the given sign.
MgPrinted(sign, r) ==
    {p \in 1..Len(mg_out) :
        /\ mg_out[p].sign = sign
        /\ Unhex(mg_out[p].bucket) = RecBucket(r)
        /\ mg_out[p].group = RecGroup(r)
        /\ mg_out[p].index = RecIndex(r)}

\* The places (source, position) of the inputs that hold record r.
MgPlaces(r) ==
    {kp \in (1..Len(mg_sources)) \X (1..MaxRecs) :
        /\ kp[2] <= Len(MgSourceRecs(kp[1]))
        /\ MgSourceRecs(kp[1])[kp[2]] = r}

\* No record (bucket, g, i) is held twice by the inputs.
MgDistinctRecords == \A r \in MgInputRecs : Cardinality(MgPlaces(r)) = 1

-----------------------------------------------------------------------------
(* C24 *)

\* The orders in which the bands of [begin, end) can be taken.
DdBandOrders ==
    {o \in [1..(lsh_end - lsh_begin) -> DdBands] :
        \A p, q \in 1..(lsh_end - lsh_begin) : p # q => o[p] # o[q]}

\* C24: band-order independence of the final flags.  When run() has
\* processed every band of [begin, end), the flag vector is the one that
\* processing the bands in any other order, from flags all ' ', ends with;
\* and in every band the item left unmarked in a run of equal buckets is the
\* one with the lowest item index.
C24_BandOrderIndependence ==
    dd_pc = "done" =>
        /\ \A o \in DdBandOrders :
            run_in_order(o, dd_cols, [i \in 1..lsh_num_items |-> " "]) = lsh_flags
        /\ \A b \in DdBands :
            \A j \in DdItems :
                ~HasEarlierEqual(b, j) =>
                    run_in_order(<<b>>, dd_cols, [i \in 1..lsh_num_items |-> " "])[j + 1] = " "

\* A run over two bands has ended; one item is detected in the first band
\* only and another in the second band only.
C24_Witness ==
    /\ dd_pc = "done"
    /\ lsh_end - lsh_begin = 2
    /\ \E i, j \in DdItems :
        /\ HasEarlierEqual(lsh_begin, i) /\ ~HasEarlierEqual(lsh_begin + 1, i)
        /\ HasEarlierEqual(lsh_begin + 1, j) /\ ~HasEarlierEqual(lsh_begin, j)
        /\ lsh_flags[i + 1] = "D"
        /\ lsh_flags[j + 1] = "D"

-----------------------------------------------------------------------------
(* C25 *)

\* A read of band b comes short: some shard has an item whose bucket for the
\* band does not lie within the file.
DdReadError(b) ==
    \E k \in 1..Len(lsh_hfs) :
        \E j \in 0..(lsh_hfs[k].num_items - 1) :
            LET bytes_per_bucket == lsh_bytes_per_hash * lsh_num_hash_values
            IN  mh_header_size
                    + bytes_per_bucket * ((lsh_end - lsh_begin) * j + (b - lsh_begin) + 1)
                > Len(dd_files[k])

\* Band b fails: a shard cannot be opened, a read comes short, or the index
\* file that is asked for cannot be opened.
DdBandFails(b) ==
    \/ dd_fault.kind = "shard" /\ dd_fault.band = b
    \/ DdReadError(b)
    \/ dd_save_index /\ dd_fault.kind = "index" /\ dd_fault.band = b

\* C25: the flag file is committed last.  The flag file exists only when
\* deduplicate_bucket has completed for every band of [begin, end); and if
\* a band fails (a shard that cannot be opened, a read error, an index file
\* that cannot be opened), the run ends with a status other than 0, the flag
\* file is never written and no index file exists for a later band.
C25_FlagFileCommittedLast ==
    /\ dd_dup.exists =>
        /\ dd_bn = lsh_end
        /\ dd_save_index => \A b \in DdBands : b \in DOMAIN dd_idx
    /\ \A b \in DdBands :
        (dd_pc \notin {"initialize", "failed"} /\ DdBandFails(b)) =>
            /\ ~dd_dup.exists
            /\ dd_pc = "exit" => dd_ret # 0
            /\ \A later \in DdBands : later > b => later \notin DOMAIN dd_idx

-----------------------------------------------------------------------------
(* C27 *)

\* C27: short reads are fatal.  If in band b the read of the bucket of any
\* item of any shard comes short (the file ends before the bucket does,
\* at whatever item), the band is not sorted, swept or indexed: the run
\* never stands after the join of band b's load tasks, and no column and no
\* index of band b is ever produced.
C27_ShortReadFatal ==
    \A b \in DdBands :
        (dd_pc \notin {"initialize", "failed"} /\ DdReadError(b)) =>
            /\ dd_bn = b => dd_pc \notin {"sweep", "index", "promote"}
            /\ dd_bn <= b
            /\ b \notin DOMAIN dd_cols
            /\ b \notin DOMAIN dd_idx

-----------------------------------------------------------------------------
(* C26 *)

\* The sum of the num_items of the shards before shard k.
DdItemsBefore(k) == SumTo([m \in 1..Len(lsh_hfs) |-> lsh_hfs[m].num_items], k - 1)

\* The slots (0-based) of the items of shard k.
DdRange(k) == DdItemsBefore(k)..(DdItemsBefore(k) + lsh_hfs[k].num_items - 1)

\* The bytes the file of its shard holds for global item i and band b.
DdBucketInFile(i, b) ==
    LET k == CHOOSE m \in 1..Len(lsh_hfs) : i \in DdRange(m)
        j == i - DdItemsBefore(k)
        bytes_per_bucket == lsh_bytes_per_hash * lsh_num_hash_values
        at == mh_header_size + bytes_per_bucket * ((lsh_end - lsh_begin) * j + (b - lsh_begin))
    IN  SubSeq(dd_files[k], at + 1, at + bytes_per_bucket)

\* C26: the parallel bucket load is free of races.  start_index[k] is the
\* sum of the num_items of the shards before k; while the tasks of a band
\* run, every slot a task has written lies in the range of its shard (the
\* ranges are pairwise disjoint) and has been written once; and when all the
\* tasks have ended, whatever their interleaving, every slot of
\* [0, num_items) has been written by exactly one task, the item array is
\* the identity and slot i of the buffer holds the bucket of global item i.
C26_RaceFreeLoad ==
    dd_pc = "load" =>
        /\ \A k \in 1..Len(lsh_hfs) : lsh_hfs[k].start_index = DdItemsBefore(k)
        /\ \A k, m \in 1..Len(lsh_hfs) : k # m => DdRange(k) \cap DdRange(m) = {}
        /\ \A i \in DdItems :
            /\ Len(dd_wrote[i + 1]) <= 1
            /\ \A p \in 1..Len(dd_wrote[i + 1]) : i \in DdRange(dd_wrote[i + 1][p])
        /\ (\A k \in 1..Len(dd_task) : dd_task[k] = -1) =>
            \A i \in DdItems :
                /\ Len(dd_wrote[i + 1]) = 1
                /\ lsh_items[i + 1] = i
                /\ lsh_buffer[i + 1] = DdBucketInFile(i, dd_bn)

\* In the second band of a group of two shards with items, the task of the
\* second shard has ended before the task of the first has written a slot.
C26_Witness ==
    /\ dd_pc = "load"
    /\ dd_bn > lsh_begin
    /\ Len(lsh_hfs) = 2
    /\ lsh_hfs[1].num_items >= 1
    /\ lsh_hfs[2].num_items >= 2
    /\ dd_task[1] = 0
    /\ dd_task[2] = -1
    /\ dd_wrote[1] = << >>
    /\ Len(dd_wrote[lsh_num_items]) = 1

-----------------------------------------------------------------------------
(* C28 *)

\* The number of records reader k (1-based) has read.
MgReadCount(k) == mg_readers[k].pos \div mg_readers[k].bytes_per_item

\* C28: heap occupancy.  At every point of merge_index the priority queue
\* holds at most one record per source reader; the record of a reader is the
\* last one it read, and every record it read before is popped (the records
\* read are those printed plus those in the queue); and a reader that has
\* reached the end of its file has no record in the queue.
C28_HeapOccupancy ==
    /\ \A x, y \in mg_pq : x.m_k = y.m_k => x = y
    /\ \A x \in mg_pq :
        LET k == x.m_k + 1
        IN  /\ k \in 1..Len(mg_readers)
            /\ ~mg_readers[k].eof
            /\ MgReadCount(k) >= 1
            /\ x.m_bs = MgSourceRecs(k)[MgReadCount(k)]
    /\ (mg_pc \in {"top", "dups", "returned"} /\ mg_readers # << >>) =>
        SumTo([k \in 1..Len(mg_readers) |-> MgReadCount(k)], Len(mg_readers))
            = Len(mg_out) + Cardinality(mg_pq)

\* In a merge of two sources, at the test of the outer loop, one reader has
\* reached the end of its file after its records were popped and the queue
\* holds the second record of the other.
C28_Witness ==
    /\ mg_pc = "top"
    /\ Len(mg_sources) = 2
    /\ Cardinality(mg_pq) = 1
    /\ \E k \in 1..2 : mg_readers[k].eof /\ MgReadCount(k) >= 1
    /\ \E x \in mg_pq : MgReadCount(x.m_k + 1) = 2

-----------------------------------------------------------------------------
(* C29 *)

\* The ways to list the sources in another order.
MgSourceOrders ==
    {o \in [1..Len(mg_sources) -> 1..Len(mg_sources)] :
        \A p, q \in 1..Len(mg_sources) : p # q => o[p] # o[q]}

\* The lines of the given sign among the lines out.
MgLines(out, sign) == SelectSeq(out, LAMBDA e : e.sign = sign)

\* C29: the merge is independent of the order of the sources.  When
\* merge_index has run to its end on indices whose records are pairwise
\* distinct as (bucket, g, i), the run on the source list in any other order
\* emits the same sequence of records and reports the same set of
\* duplicate records.
C29_SourceOrderIndependence ==
    (mg_pc = "returned" /\ mg_ret = 0 /\ MgDistinctRecords) =>
        /\ mg_out = merge_index_out(mg_sources)
        /\ \A o \in MgSourceOrders :
            LET out == merge_index_out([k \in 1..Len(mg_sources) |-> mg_sources[o[k]]])
            IN  /\ MgLines(out, "+") = MgPlus
                /\ {out[p] : p \in {q \in 1..Len(out) : out[q].sign = "-"}}
                    = {mg_out[p] : p \in {q \in 1..Len(mg_out) : mg_out[q].sign = "-"}}

\* A merge of two different sources with records has ended with a duplicate
\* reported, and the first record emitted is a record of the second source.
C29_Witness ==
    /\ mg_pc = "returned"
    /\ mg_ret = 0
    /\ MgDistinctRecords
    /\ Len(mg_sources) = 2
    /\ Len(MgSourceRecs(1)) >= 1
    /\ \E p \in 1..Len(mg_out) : mg_out[p].sign = "-"
    /\ Len(MgPlus) >= 1
    /\ \E p \in 1..Len(MgSourceRecs(2)) :
        /\ RecBucket(MgSourceRecs(2)[p]) = Unhex(MgPlus[1].bucket)
        /\ RecGroup(MgSourceRecs(2)[p]) = MgPlus[1].group
        /\ RecIndex(MgSourceRecs(2)[p]) = MgPlus[1].index

-----------------------------------------------------------------------------
(* C30 *)

\* The number of records of all the inputs.
MgTotalRecs ==
    SumTo([k \in 1..Len(mg_sources) |-> Len(MgSourceRecs(k))], Len(mg_sources))

\* C30: the merger terminates.  For any number of input indices, empty
\* ones included, merge_index returns; and when its loop has ended, every
\* reader has read all the records of its input and is at the end of its
\* file, the queue is empty, and the number of pops (the lines printed) is
\* the number of records of all the inputs.
C30_MergerTermination ==
    /\ <>(mg_pc = "returned")
    /\ [](( mg_pc = "returned" /\ mg_ret = 0) =>
            /\ mg_pq = {}
            /\ \A k \in 1..Len(mg_sources) :
                /\ mg_readers[k].eof
                /\ mg_readers[k].pos = Len(mg_sources[k].body)
            /\ Len(mg_out) = MgTotalRecs)

\* merge_index has returned from a merge of an empty index and an index of
\* two records, with two pops.
C30_Witness ==
    /\ mg_pc = "returned"
    /\ mg_ret = 0
    /\ Len(mg_sources) = 2
    /\ \E k \in 1..2 : Len(MgSourceRecs(k)) = 0
    /\ MgTotalRecs = 2
    /\ Len(mg_out) = 2

-----------------------------------------------------------------------------
(* Specifications *)

MhSpecInit == MhInit /\ DdIdle /\ MgIdle /\ ApIdle /\ AwIdle /\ SkIdle /\ DsIdle /\ RgIdle

SpecMinHash == MhSpecInit /\ [][MhNext]_vars

DdSpecInit == DdInit /\ MhIdle /\ MgIdle /\ ApIdle /\ AwIdle /\ SkIdle /\ DsIdle /\ RgIdle

SpecDedup == DdSpecInit /\ [][DdNext]_vars

DmSpecInit == DmInit /\ MhIdle /\ MgIdle /\ ApIdle /\ AwIdle /\ SkIdle /\ DsIdle /\ RgIdle

SpecDedupMain == DmSpecInit /\ [][DdNext]_vars

MgSpecInit == MgInit /\ MhIdle /\ DdIdle /\ ApIdle /\ AwIdle /\ SkIdle /\ DsIdle /\ RgIdle

SpecMerge == MgSpecInit /\ [][MgNext]_vars

ApSpecInit == ApInit /\ MhIdle /\ DdIdle /\ MgIdle /\ AwIdle /\ SkIdle /\ DsIdle /\ RgIdle

SpecApply == ApSpecInit /\ [][ApNext]_vars

AwSpecInit == AwInit /\ MhIdle /\ DdIdle /\ MgIdle /\ ApIdle /\ SkIdle /\ DsIdle /\ RgIdle

SpecApplyWhole == AwSpecInit /\ [][AwNext]_vars

SkSpecInit == SkInit /\ MhIdle /\ DdIdle /\ MgIdle /\ ApIdle /\ AwIdle /\ DsIdle /\ RgIdle

SpecSketch == SkSpecInit /\ [][SkNext]_vars

DsSpecInit == DsInit /\ MhIdle /\ DdIdle /\ MgIdle /\ ApIdle /\ AwIdle /\ SkIdle /\ RgIdle

SpecDedupSelf == DsSpecInit /\ [][DsNext]_vars

\* merge_index is one thread that is not held up: some step is taken as
\* long as one can be.
SpecMergeLive == MgSpecInit /\ [][MgNext]_vars /\ WF_vars(MgNext)

MmSpecInit == MmInit /\ MhIdle /\ DdIdle /\ ApIdle /\ AwIdle /\ SkIdle /\ DsIdle /\ RgIdle

SpecMergeMain == MmSpecInit /\ [][MgNext]_vars

DfSpecInit == DfInit /\ MhIdle /\ MgIdle /\ ApIdle /\ AwIdle /\ SkIdle /\ DsIdle /\ RgIdle

SpecDedupFaults == DfSpecInit /\ [][DdNext]_vars

RgSpecInit == RgInit /\ MhIdle /\ DdIdle /\ MgIdle /\ ApIdle /\ AwIdle /\ SkIdle /\ DsIdle

SpecRange == RgSpecInit /\ [][RgNext]_vars

====
